---- MODULE Spec2Model ----
(***************************************************************************)
(* Message Content Reconstruction Engine of chat_export/old.py:            *)
(* decode_message_content, its salvage chain, the two module-level caches  *)
(* and the writers of process_and_write that drive them.                   *)
(*                                                                         *)
(* Python values are tagged records, [t |-> <type>, v |-> <payload>], so   *)
(* that the isinstance tests and the AttributeError / TypeError paths of   *)
(* the code are decided by the tag.  Text (str) and bytes are sequences of *)
(* one-character strings.  Non-ASCII literals of the source are written    *)
(* as ASCII stand-ins, named next to their definition.                     *)
(***************************************************************************)
EXTENDS Integers, Sequences, FiniteSets, TLC

VARIABLES
    SALVAGE_CACHE,          \* old.py:65   timestamp -> salvaged text
    MESSAGE_CONTENT_CACHE,  \* old.py:66   timestamp -> rendered text
    rows,                   \* the rows handed to process_and_write
    config,                 \* export_format, is_timeline and export_config
    valid_rows,             \* old.py:1503 rows kept by the pre-filter pass
    pc,                     \* position of the run
    idx,                    \* index of the next row of the running loop
    count,                  \* the writer's count of written messages
    call,                   \* the last decode_message_content call and its outcome
    msg_blob,               \* export_c2c.py:130 the blob of the row being exported
    raw_decoded,            \* export_c2c.py:132
    decoded_struct,         \* export_c2c.py:133
    peer_rows,              \* old.py:1813 the rows of each uid of target_uids
    peer_index              \* old.py:1813 how many of them were started

\* the locals of the structure export (mods/features/export_c2c.py)
export_vars == <<msg_blob, raw_decoded, decoded_struct>>

\* the loop over the peers of a per-friend export (old.py:1813)
peer_vars == <<peer_rows, peer_index>>

vars == <<SALVAGE_CACHE, MESSAGE_CONTENT_CACHE, rows, config,
          valid_rows, pc, idx, count, call, export_vars, peer_vars>>

---------------------------------------------------------------------------
(* Bounds of the model *)

MaxTs == 2          \* row timestamps are 1..MaxTs
MaxRows == 2        \* rows of one export job
MaxBlobLen == 3     \* length of the exhaustively enumerated undecodable blobs

---------------------------------------------------------------------------
(* Python values *)

None == [t |-> "None"]
PyInt(n) == [t |-> "int", v |-> n]
PyBytes(s) == [t |-> "bytes", v |-> s]
PyStr(s) == [t |-> "str", v |-> s]
PyDict(f) == [t |-> "dict", v |-> f]
PyList(s) == [t |-> "list", v |-> s]
\* a raised exception, as the value of the expression that raised it
EXC == [t |-> "EXC"]

\* Python truthiness (`if x:`, `x or y`)
Truthy(x) ==
    CASE x.t = "None" -> FALSE
      [] x.t = "int" -> x.v # 0
      [] x.t \in {"bytes", "str", "list"} -> x.v # <<>>
      [] x.t = "dict" -> DOMAIN x.v # {}
      [] OTHER -> TRUE

\* dict.get(key, default)
Get(d, key, default) == IF key \in DOMAIN d THEN d[key] ELSE default

\* cache = {key: value}: the assignment made to the whole cache
Put_only(cache, key, value) == [k \in {key} |-> value]

\* cache.setdefault(key, value): the first value of a key is kept
Put_keepFirst(cache, key, value) ==
    [k \in DOMAIN cache \cup {key} |-> IF k \in DOMAIN cache THEN cache[k] ELSE value]

\* cache[key] = value
Put(cache, key, value) ==
    [k \in DOMAIN cache \cup {key} |-> IF k = key THEN value ELSE cache[k]]

EmptyCache == [k \in {} |-> <<>>]

---------------------------------------------------------------------------
(* Characters.  A byte string is a sequence of characters of ByteChars; a   *)
(* decoded text may also hold REPLACEMENT.                                  *)

LF == "LF"              \* the newline character
SPACE == " "
CTRL == "^A"            \* a valid character outside the printable pattern
INVALID == "xFF"        \* a byte that is not valid UTF-8
REPLACEMENT == "uFFFD"  \* U+FFFD, what errors="replace" puts for INVALID

ByteChars == {"a", SPACE, LF, "[", "]", CTRL, INVALID}
Whitespace == {SPACE, LF}

\* bytes.decode("utf-8", "ignore")
DecodeIgnore(b) == SelectSeq(b, LAMBDA c : c # INVALID)

\* bytes.decode("utf-8", errors="replace")
DecodeReplace(b) == [k \in DOMAIN b |-> IF b[k] = INVALID THEN REPLACEMENT ELSE b[k]]

\* the sentinel "[%\n%]" of _sanitize_newlines: six characters, the fourth an
\* ordinary letter n
SENTINEL == <<"[", "%", "\\", "n", "%", "]">>

RECURSIVE Replace_LF(_)
Replace_LF(s) ==
    IF s = <<>> THEN <<>>
    ELSE (IF Head(s) = LF THEN SENTINEL ELSE <<Head(s)>>) \o Replace_LF(Tail(s))

\* old.py:490 _sanitize_newlines, on a str
_sanitize_newlines(text) == Replace_LF(text)

\* str.strip()
RECURSIVE LStrip(_)
LStrip(s) == IF s # <<>> /\ Head(s) \in Whitespace THEN LStrip(Tail(s)) ELSE s

RECURSIVE RStrip(_)
RStrip(s) ==
    IF s # <<>> /\ s[Len(s)] \in Whitespace THEN RStrip(SubSeq(s, 1, Len(s) - 1)) ELSE s

Strip(s) == RStrip(LStrip(s))

Min(S) == CHOOSE m \in S : \A n \in S : m <= n

---------------------------------------------------------------------------
(* The salvage chain, old.py:776-788 and old.py:496-506 *)

\* old.py:779  {1,10}: the most characters a bracket token holds inside
BRACKET_MAX == 10

\* old.py:779  re.search(r"(\[[^\]]{1,10}\])", s): the leftmost "[" that is
\* followed by 1..10 characters other than "]" and then a "]"
BracketClose(s, i) ==
    {j \in (i + 2)..Len(s) :
        /\ s[j] = "]"
        /\ j - i - 1 <= BRACKET_MAX
        /\ \A k \in (i + 1)..(j - 1) : s[k] # "]"}

BracketSearch(s) ==
    LET starts == {i \in 1..Len(s) : s[i] = "[" /\ BracketClose(s, i) # {}}
    IN  IF starts = {} THEN None
        ELSE LET i == Min(starts)
                 j == Min(BracketClose(s, i))
             IN  PyStr(SubSeq(s, i, j))

\* old.py:503  the characters of the pattern: letters, digits, CJK,
\* whitespace and the listed punctuation (brackets, % and \ among them)
InPattern(c) == c \notin {CTRL, REPLACEMENT, INVALID}

\* old.py:504  re.findall(pattern, s): the maximal runs, as <<first, last>>
Runs(s) ==
    {r \in (1..Len(s)) \X (1..Len(s)) :
        /\ r[1] <= r[2]
        /\ \A k \in r[1]..r[2] : InPattern(s[k])
        /\ (r[1] = 1 \/ ~InPattern(s[r[1] - 1]))
        /\ (r[2] = Len(s) \/ ~InPattern(s[r[2] + 1]))}

\* old.py:505  max(fragments, key=len): the first of the longest runs
LongestRun(s) ==
    LET R == Runs(s)
        longest == {r \in R : \A q \in R : q[2] - q[1] <= r[2] - r[1]}
        r == CHOOSE x \in longest : \A q \in longest : x[1] <= q[1]
    IN  SubSeq(s, r[1], r[2])

\* old.py:496  _extract_readable_text(data)
_extract_readable_text(data) ==
    IF data = <<>> THEN None
    ELSE LET decoded_str == DecodeReplace(data)
         IN  IF Runs(decoded_str) = {} THEN None
             ELSE PyStr(Strip(LongestRun(decoded_str)))

\* base64.b64encode(content).decode('ascii'): every group of up to three
\* bytes becomes one token that names the group ("=" pads a short group);
\* the output alphabet holds no newline
B64Group(g) ==
    "b64<" \o g[1] \o "," \o (IF Len(g) >= 2 THEN g[2] ELSE "=") \o ","
           \o (IF Len(g) >= 3 THEN g[3] ELSE "=") \o ">"

RECURSIVE b64encode(_)
b64encode(b) ==
    IF b = <<>> THEN <<>>
    ELSE IF Len(b) <= 3 THEN <<B64Group(b)>>
    ELSE <<B64Group(SubSeq(b, 1, 3))>> \o b64encode(SubSeq(b, 4, Len(b)))

\* old.py:786  the prefix "[<decode failed>-BASE64] "
B64_PREFIX == <<"[", "decode-failed-BASE64", "]", SPACE>>

\* python's `x or y`, and `if not x: x = y`
Or(x, y) == IF Truthy(x) THEN x ELSE y

\* the first two strategies in the other order
Salvaged_runFirst(content) ==
    Or(_extract_readable_text(content), BracketSearch(DecodeIgnore(content)))

\* old.py:777-782  the text the first two strategies recover, or a falsy value
Salvaged(content) ==
    Or(BracketSearch(DecodeIgnore(content)), _extract_readable_text(content))

\* `if salvaged is not None:` in the place of `if salvaged:`
SalvageReturn_notNone(salvaged, b64) ==
    IF salvaged # None
    THEN [stored |-> salvaged.v, parts |-> <<PyStr(_sanitize_newlines(salvaged.v))>>]
    ELSE [stored |-> b64, parts |-> <<PyStr(b64)>>]

\* the returned fragment stored in the place of the salvaged text
SalvageReturn_storeReturned(salvaged, b64) ==
    IF Truthy(salvaged)
    THEN [stored |-> _sanitize_newlines(salvaged.v),
          parts |-> <<PyStr(_sanitize_newlines(salvaged.v))>>]
    ELSE [stored |-> b64, parts |-> <<PyStr(b64)>>]

\* old.py:783-788  what is stored in SALVAGE_CACHE under the timestamp, and
\* the fragment list that is returned
SalvageReturn(salvaged, b64) ==
    IF Truthy(salvaged)
    THEN [stored |-> salvaged.v, parts |-> <<PyStr(_sanitize_newlines(salvaged.v))>>]
    ELSE [stored |-> b64, parts |-> <<PyStr(b64)>>]

\* old.py:776-788  the except branch
SalvageChain(content) ==
    SalvageReturn(Salvaged(content), B64_PREFIX \o b64encode(content))

---------------------------------------------------------------------------
(* Field identifiers of the message protobuf, old.py:97-133 *)

PB_MSG_CONTAINER == "40800"
PB_MSG_TYPE == "45002"
PB_MSG_SUBTYPE == "45003"
PB_EMOJI_DESC == "47602"
PB_STICKER_DESC == "45815"
PB_APOLLO_TEXT == "45824"
PB_TEXT_CONTENT == "45101"
PB_ARK_JSON == "47901"
PB_RECALLER_NAME == "47705"
PB_RECALLER_UID == "47703"
PB_RECALL_SUFFIX == "47713"
PB_FILE_NAME == "45402"
PB_IMG_WIDTH == "45411"
PB_IMG_HEIGHT == "45412"
PB_VID_DURATION == "45410"
PB_VID_WIDTH == "45413"
PB_VID_HEIGHT == "45414"
PB_CALL_STATUS == "48153"
PB_CALL_TYPE == "48154"
PB_MARKET_FACE_TEXT == "80900"
PB_IMAGE_IS_FLASH == "45829"
PB_REDPACKET_TYPE == "48412"
PB_REDPACKET_TITLE == "48443"
PB_REDPACKET_BODY == "48403"
PB_VOICE_DURATION == "45005"
PB_VOICE_TO_TEXT == "45923"
PB_GIFT_TEXT == "52138"
PB_LOCATION_SHARE_TEXT == "52152"
PB_INTERACTIVE_EMOJI_ID == "47611"
PB_INTERACTIVE_EMOJI_ID_IN_QUOTE == "47601"
PB_REPLY_ORIGIN_SENDER_UID == "40020"
PB_REPLY_ORIGIN_RECEIVER_UID == "40021"
PB_REPLY_ORIGIN_TS == "47404"
PB_REPLY_ORIGIN_SUMMARY_TEXT == "47413"
PB_REPLY_ORIGIN_OBJ == "47423"
PB_GRAYTIP_INTERACTIVE_XML == "48214"

\* old.py:136  MSG_TYPE_MAP; the labels are ASCII stand-ins of the Chinese ones
MSG_TYPE_MAP ==
    (1 :> "text") @@ (2 :> "image") @@ (3 :> "file") @@ (4 :> "voice")
    @@ (5 :> "video") @@ (6 :> "QQ-emoji") @@ (7 :> "reply") @@ (8 :> "gray-tip")
    @@ (9 :> "redpacket") @@ (10 :> "card") @@ (11 :> "market-face")
    @@ (14 :> "Markdown") @@ (21 :> "call") @@ (27 :> "gift")
    @@ (28 :> "location-share-tip")

\* old.py:144  INTERACTIVE_EMOJI_MAP
INTERACTIVE_EMOJI_MAP ==
    (1 :> "poke") @@ (2 :> "heart") @@ (3 :> "like") @@ (4 :> "heartbreak")
    @@ (5 :> "666") @@ (6 :> "ultimate")

\* `key in d` for a dict d with integer keys: an unhashable key raises
\* TypeError, any other non-integer key is simply absent
Unhashable(x) == x.t \in {"dict", "list"}
InIntMap(x, d) == x.t = "int" /\ x.v \in DOMAIN d

\* python's x == n for an integer literal n
EqInt(x, n) == x.t = "int" /\ x.v = n

\* value.decode("utf-8", "ignore"): only bytes has the method
decode_ignore(x) == IF x.t = "bytes" THEN PyStr(DecodeIgnore(x.v)) ELSE EXC

\* value.decode("utf-8"): strict, raises UnicodeDecodeError on an invalid byte
decode_strict(x) ==
    IF x.t = "bytes" /\ \A k \in DOMAIN x.v : x.v[k] # INVALID THEN PyStr(x.v) ELSE EXC

\* " ".join(parts), parts a sequence of texts
RECURSIVE Join(_)
Join(parts) ==
    IF parts = <<>> THEN <<>>
    ELSE IF Len(parts) = 1 THEN parts[1]
    ELSE parts[1] \o <<SPACE>> \o Join(Tail(parts))

\* str(n) of an integer
IntText(n) == <<ToString(n)>>

---------------------------------------------------------------------------
(* ProfileManager.get_display_name, old.py:348-363, for name_style
   'default': a known user's name, else the uid itself *)

all_users == (<<"u_A">> :> <<"Alice">>)

get_display_name(uid) == IF uid \in DOMAIN all_users THEN all_users[uid] ELSE uid

\* old.py:478  get_placeholder(value, "N/A") on a text
NA == <<"N", "/", "A">>
get_placeholder(value) == IF value # <<>> /\ value # <<"0">> THEN value ELSE NA

\* datetime.fromtimestamp(n) raises (OSError, ValueError) past the range of
\* datetime; the timestamps above MaxTs stand for those
FromTimestampRaises(n) == n > MaxTs

\* old.py:482  format_timestamp(ts): a positive int is formatted (one token
\* standing for "YYYY-MM-DD HH:MM:SS"), or shown raw when fromtimestamp
\* raises; every other value gives "N/A"
format_timestamp(ts) ==
    IF ts.t = "int" /\ ts.v > 0
    THEN IF FromTimestampRaises(ts.v) THEN <<"timestamp(", ToString(ts.v), ")">>
         ELSE <<"date:" \o ToString(ts.v)>>
    ELSE NA

---------------------------------------------------------------------------
(* _parse_single_segment, old.py:508-608.  The result is a text, or EXC
   when a statement of the function raises. *)

\* f"{prefix}{x}]" for a decoded field, f"{bare}" when the field is empty
Labelled(x, prefix, bare) ==
    IF x = EXC THEN EXC
    ELSE IF x.v # <<>> THEN PyStr(prefix \o x.v \o <<"]">>) ELSE PyStr(bare)

\* str.lstrip('/')
RECURSIVE LStripSlash(_)
LStripSlash(s) == IF s # <<>> /\ Head(s) = "/" THEN LStripSlash(Tail(s)) ELSE s

\* old.py:513-528
ParseEmoji(segment) ==
    LET is_interactive_from_subtype == EqInt(Get(segment, PB_MSG_SUBTYPE, None), 5)
        first == Get(segment, PB_INTERACTIVE_EMOJI_ID, None)
        action_id == IF first = None
                     THEN Get(segment, PB_INTERACTIVE_EMOJI_ID_IN_QUOTE, None)
                     ELSE first
    IN  IF Unhashable(action_id) THEN EXC
        ELSE IF is_interactive_from_subtype \/ InIntMap(action_id, INTERACTIVE_EMOJI_MAP)
        THEN PyStr(<<"[", "interactive-emoji: ">>
                   \o <<IF InIntMap(action_id, INTERACTIVE_EMOJI_MAP)
                        THEN INTERACTIVE_EMOJI_MAP[action_id.v]
                        ELSE "unknown-interaction">>
                   \o <<"]">>)
        ELSE LET desc == decode_ignore(Get(segment, PB_EMOJI_DESC, PyBytes(<<>>)))
             IN  IF desc = EXC THEN EXC
                 ELSE IF desc.v # <<>>
                 THEN PyStr(<<"[", "QQ-emoji: ">> \o LStripSlash(desc.v) \o <<"]">>)
                 ELSE PyStr(<<"[", "QQ-emoji", "]">>)

\* _parse_single_segment with `if width or height` at line 551
ParseImage_eitherDimension(segment, export_config) ==
    LET subtype == Get(segment, PB_MSG_SUBTYPE, None)
        desc_list == Get(segment, PB_STICKER_DESC, PyList(<<>>))
        apollo_text_raw == Get(segment, PB_APOLLO_TEXT, None)
        tag == IF EqInt(Get(segment, PB_IMAGE_IS_FLASH, None), 1)
               THEN <<"[", "flash-photo">> ELSE <<"[", "image">>
        width == Get(segment, PB_IMG_WIDTH, None)
        height == Get(segment, PB_IMG_HEIGHT, None)
    IN  IF EqInt(subtype, 7)
        THEN IF ~Truthy(desc_list) THEN PyStr(<<"[", "animated-sticker", "]">>)
             ELSE IF desc_list.t = "list" THEN decode_ignore(desc_list.v[1])
             ELSE EXC
        ELSE IF EqInt(subtype, 1) \/ EqInt(subtype, 2)
        THEN IF Truthy(apollo_text_raw)
             THEN LET apollo_text == decode_ignore(apollo_text_raw)
                  IN  IF apollo_text = EXC THEN EXC
                      ELSE PyStr(<<"[", "super-QQ-show: ">> \o apollo_text.v \o <<"]">>)
             ELSE PyStr(<<"[", "animated-sticker", "]">>)
        ELSE IF export_config.show_media_info /\ (Truthy(width) \/ Truthy(height))
        THEN IF width.t = "int" /\ height.t = "int"
             THEN PyStr(tag \o <<SPACE>> \o IntText(width.v) \o <<"x">>
                        \o IntText(height.v) \o <<"]">>)
             ELSE PyStr(tag \o <<SPACE, "repr", "x", "repr", "]">>)
        ELSE PyStr(tag \o <<"]">>)

\* old.py:530-554
ParseImage(segment, export_config) ==
    LET subtype == Get(segment, PB_MSG_SUBTYPE, None)
        desc_list == Get(segment, PB_STICKER_DESC, PyList(<<>>))
        apollo_text_raw == Get(segment, PB_APOLLO_TEXT, None)
        tag == IF EqInt(Get(segment, PB_IMAGE_IS_FLASH, None), 1)
               THEN <<"[", "flash-photo">> ELSE <<"[", "image">>
        width == Get(segment, PB_IMG_WIDTH, None)
        height == Get(segment, PB_IMG_HEIGHT, None)
    IN  IF EqInt(subtype, 7)
        THEN IF ~Truthy(desc_list) THEN PyStr(<<"[", "animated-sticker", "]">>)
             ELSE IF desc_list.t = "list" THEN decode_ignore(desc_list.v[1])
             ELSE EXC   \* desc_list[0] of a bare bytes is an int, of a dict a KeyError
        ELSE IF EqInt(subtype, 1) \/ EqInt(subtype, 2)
        THEN IF Truthy(apollo_text_raw)
             THEN LET apollo_text == decode_ignore(apollo_text_raw)
                  IN  IF apollo_text = EXC THEN EXC
                      ELSE PyStr(<<"[", "super-QQ-show: ">> \o apollo_text.v \o <<"]">>)
             ELSE PyStr(<<"[", "animated-sticker", "]">>)
        ELSE IF export_config.show_media_info /\ Truthy(width) /\ Truthy(height)
        THEN IF width.t = "int" /\ height.t = "int"
             THEN PyStr(tag \o <<SPACE>> \o IntText(width.v) \o <<"x">>
                        \o IntText(height.v) \o <<"]">>)
             ELSE PyStr(tag \o <<SPACE, "repr", "x", "repr", "]">>)
        ELSE PyStr(tag \o <<"]">>)

\* old.py:561-576
ParseVideo(segment, export_config) ==
    LET width == Get(segment, PB_VID_WIDTH, PyInt(0))
        height == Get(segment, PB_VID_HEIGHT, PyInt(0))
        duration_sec == Get(segment, PB_VID_DURATION, PyInt(0))
        dims == IF width.v > 0 /\ height.v > 0    \* read only when all are ints
                THEN <<IntText(width.v) \o <<"x">> \o IntText(height.v)>> ELSE <<>>
        dur == IF duration_sec.v > 0
               THEN <<IntText(duration_sec.v \div 60) \o <<":">>
                      \o IntText(duration_sec.v % 60)>>
               ELSE <<>>
    IN  IF ~export_config.show_media_info THEN PyStr(<<"[", "video", "]">>)
        ELSE IF \/ width.t # "int"
                \/ (width.v > 0 /\ height.t # "int")
                \/ duration_sec.t # "int"
        THEN EXC        \* `width > 0` on bytes, dict or None is a TypeError
        ELSE IF dims \o dur # <<>>
        THEN PyStr(<<"[", "video", SPACE>> \o Join(dims \o dur) \o <<"]">>)
        ELSE PyStr(<<"[", "video", "]">>)

\* old.py:582-592
ParseRedpacket(segment) ==
    LET body == Get(segment, PB_REDPACKET_BODY, PyDict(<<>>))
        title == IF body.t = "dict"
                 THEN decode_ignore(Get(body.v, PB_REDPACKET_TITLE, PyBytes(<<>>)))
                 ELSE EXC       \* .get on bytes, int or list is an AttributeError
        rp_type == Get(segment, PB_REDPACKET_TYPE, None)
        label == IF EqInt(rp_type, 2) THEN "plain-redpacket"
                 ELSE IF EqInt(rp_type, 6) THEN "passphrase-redpacket"
                 ELSE IF EqInt(rp_type, 15) THEN "voice-redpacket"
                 ELSE "redpacket"
    IN  IF title = EXC THEN EXC
        ELSE PyStr(<<"[", label, "]", SPACE>> \o title.v)

_parse_single_segment(segment, export_config) ==
    IF segment.t # "dict" THEN PyStr(<<>>)
    ELSE
    LET seg == segment.v
        msg_type == Get(seg, PB_MSG_TYPE, None)
    IN  CASE EqInt(msg_type, 6) -> ParseEmoji(seg)
          [] EqInt(msg_type, 2) -> ParseImage(seg, export_config)
          [] EqInt(msg_type, 3) ->
                Labelled(decode_ignore(Get(seg, PB_FILE_NAME, PyBytes(<<>>))),
                         <<"[", "file: ">>, <<"[", "file", "]">>)
          [] EqInt(msg_type, 5) -> ParseVideo(seg, export_config)
          [] EqInt(msg_type, 4) ->
                LET duration == Get(seg, PB_VOICE_DURATION, None)
                IN  IF duration.t = "int" /\ duration.v > 0
                    THEN PyStr(<<"[", "voice", "]", SPACE>> \o IntText(duration.v)
                               \o <<"\"">>)
                    ELSE PyStr(<<"[", "voice", "]">>)
          [] EqInt(msg_type, 9) -> ParseRedpacket(seg)
          [] EqInt(msg_type, 11) /\ PB_MARKET_FACE_TEXT \in DOMAIN seg ->
                LET text == decode_ignore(seg[PB_MARKET_FACE_TEXT])
                IN  IF text = EXC THEN EXC ELSE PyStr(_sanitize_newlines(text.v))
          [] EqInt(msg_type, 27) ->
                LET text == decode_ignore(Get(seg, PB_GIFT_TEXT, PyBytes(<<>>)))
                IN  IF text = EXC THEN EXC
                    ELSE IF text.v # <<>> THEN PyStr(_sanitize_newlines(text.v))
                    ELSE PyStr(<<"[", "gift", "]">>)
          [] EqInt(msg_type, 28) ->
                LET text == decode_ignore(Get(seg, PB_LOCATION_SHARE_TEXT, PyBytes(<<>>)))
                IN  IF text = EXC THEN EXC
                    ELSE IF text.v # <<>>
                    THEN PyStr(<<"[">> \o _sanitize_newlines(text.v) \o <<"]">>)
                    ELSE PyStr(<<"[", "location-share", "]">>)
          [] OTHER ->
                IF PB_TEXT_CONTENT \in DOMAIN seg
                THEN LET text == decode_ignore(seg[PB_TEXT_CONTENT])
                     IN  IF text = EXC THEN EXC ELSE PyStr(_sanitize_newlines(text.v))
                ELSE IF Unhashable(msg_type) THEN EXC
                ELSE PyStr(<<"[", IF InIntMap(msg_type, MSG_TYPE_MAP)
                                  THEN MSG_TYPE_MAP[msg_type.v] ELSE "message", "]">>)

---------------------------------------------------------------------------
(* Gray tips, old.py:610-669.  The XML of an interactive tip is a bytes
   value that also carries what the two re.findall calls extract from it:
   uids (the <qq uin="..."> attributes) and texts (the <nor txt="...">). *)

PyXml(uids, texts) == [t |-> "bytes", v |-> <<"<xml>">>, uids |-> uids, texts |-> texts]

FindUids(x) == IF "uids" \in DOMAIN x THEN x.uids ELSE <<>>
FindTexts(x) == IF "texts" \in DOMAIN x THEN x.texts ELSE <<>>

\* old.py:610  a tip dict, or None (also when anything raises)
_decode_interactive_gray_tip(seg) ==
    LET raw == Get(seg, PB_GRAYTIP_INTERACTIVE_XML, PyBytes(<<>>))
        uids == FindUids(raw)
        texts == FindTexts(raw)
    IN  IF raw.t # "bytes" THEN None
        ELSE IF Len(uids) >= 2 /\ Len(texts) >= 1
        THEN [t |-> "tip",
              actor |-> get_display_name(uids[1]),
              target |-> get_display_name(uids[2]),
              verb |-> IF texts[1] # <<>> THEN _sanitize_newlines(texts[1])
                       ELSE <<"poked">>,
              suffix |-> IF Len(texts) > 1 THEN _sanitize_newlines(texts[2]) ELSE <<>>]
        ELSE None

\* old.py:639-642, 648-651, 657-660: bytes are decoded, a str is taken as is,
\* anything else leaves the default
TextOr(x, default) ==
    IF x.t = "bytes" THEN DecodeIgnore(x.v) ELSE IF x.t = "str" THEN x.v ELSE default

\* decode_gray_tip with one switch, show_recall, for both kinds of notice
decode_gray_tip_oneSwitch(seg, export_config) ==
    LET interactive == _decode_interactive_gray_tip(seg)
        recaller_uid == TextOr(Get(seg, PB_RECALLER_UID, None), <<>>)
        resolved == get_display_name(recaller_uid)
        fallback_name_raw == Get(seg, PB_RECALLER_NAME, None)
        fallback == TextOr(fallback_name_raw, <<>>)
        display_name ==
            IF resolved = recaller_uid /\ fallback_name_raw.t \in {"bytes", "str"}
            THEN (IF fallback # <<>> THEN fallback ELSE recaller_uid)
            ELSE resolved
        recall_suffix ==
            IF export_config.show_recall_suffix
            THEN _sanitize_newlines(TextOr(Get(seg, PB_RECALL_SUFFIX, None), <<>>))
            ELSE <<>>
    IN  IF interactive # None
        THEN (IF export_config.show_recall THEN interactive ELSE None)
        ELSE IF PB_RECALLER_UID \in DOMAIN seg
        THEN IF ~export_config.show_recall THEN None
             ELSE PyStr(<<"[">> \o display_name \o <<SPACE, "recalled-a-message">>
                        \o (IF recall_suffix # <<>> THEN <<SPACE>> \o recall_suffix
                            ELSE <<>>)
                        \o <<"]">>)
        ELSE None

\* decode_gray_tip with the embedded name preferred to the resolver's
decode_gray_tip_embeddedFirst(seg, export_config) ==
    LET interactive == _decode_interactive_gray_tip(seg)
        recaller_uid == TextOr(Get(seg, PB_RECALLER_UID, None), <<>>)
        resolved == get_display_name(recaller_uid)
        fallback_name_raw == Get(seg, PB_RECALLER_NAME, None)
        fallback == TextOr(fallback_name_raw, <<>>)
        display_name ==
            IF fallback_name_raw.t \in {"bytes", "str"} /\ fallback # <<>>
            THEN fallback
            ELSE resolved
        recall_suffix ==
            IF export_config.show_recall_suffix
            THEN _sanitize_newlines(TextOr(Get(seg, PB_RECALL_SUFFIX, None), <<>>))
            ELSE <<>>
    IN  IF interactive # None
        THEN (IF export_config.show_poke THEN interactive ELSE None)
        ELSE IF PB_RECALLER_UID \in DOMAIN seg
        THEN IF ~export_config.show_recall THEN None
             ELSE PyStr(<<"[">> \o display_name \o <<SPACE, "recalled-a-message">>
                        \o (IF recall_suffix # <<>> THEN <<SPACE>> \o recall_suffix
                            ELSE <<>>)
                        \o <<"]">>)
        ELSE None

\* old.py:625  decode_gray_tip
decode_gray_tip(seg, export_config) ==
    LET interactive == _decode_interactive_gray_tip(seg)
        recaller_uid == TextOr(Get(seg, PB_RECALLER_UID, None), <<>>)
        resolved == get_display_name(recaller_uid)
        fallback_name_raw == Get(seg, PB_RECALLER_NAME, None)
        fallback == TextOr(fallback_name_raw, <<>>)
        display_name ==
            IF resolved = recaller_uid /\ fallback_name_raw.t \in {"bytes", "str"}
            THEN (IF fallback # <<>> THEN fallback ELSE recaller_uid)
            ELSE resolved
        recall_suffix ==
            IF export_config.show_recall_suffix
            THEN _sanitize_newlines(TextOr(Get(seg, PB_RECALL_SUFFIX, None), <<>>))
            ELSE <<>>
    IN  IF interactive # None
        THEN (IF export_config.show_poke THEN interactive ELSE None)
        ELSE IF PB_RECALLER_UID \in DOMAIN seg
        THEN IF ~export_config.show_recall THEN None
             ELSE PyStr(<<"[">> \o display_name \o <<SPACE, "recalled-a-message">>
                        \o (IF recall_suffix # <<>> THEN <<SPACE>> \o recall_suffix
                            ELSE <<>>)
                        \o <<"]">>)
        ELSE None

---------------------------------------------------------------------------
(* Ark cards, old.py:671-704.  The payload is a bytes value that also
   carries what json.loads makes of it: json is EXC when it does not parse. *)

PyJson(data) == [t |-> "bytes", v |-> <<"{json}">>, json |-> data]

JsonLoads(x) == IF "json" \in DOMAIN x THEN x.json ELSE EXC

\* how an f-string shows a JSON value
Shown(x) == IF x.t = "str" THEN x.v ELSE <<"repr">>

\* old.py:478  get_placeholder on a JSON value
PlaceholderOr(x, placeholder) ==
    IF Truthy(x) /\ x # PyStr(<<"0">>) THEN Shown(x) ELSE placeholder

\* `needle in prompt` for a str prompt
Contains(text, needle) == \E k \in DOMAIN text : text[k] = needle

\* data['meta'][key], EXC standing for a TypeError and None for the KeyError
MetaOf(data, key) ==
    IF "meta" \notin DOMAIN data THEN None
    ELSE IF data["meta"].t # "dict" THEN EXC
    ELSE Get(data["meta"].v, key, None)

\* an except clause that lets the exception through
CARD_FAILED_raised == EXC

\* old.py:704  the marker the except clause returns
CARD_FAILED == PyStr(<<"[", "card-parse-failed", "]">>)

\* old.py:671  decode_ark_message
decode_ark_message(seg) ==
    LET json_str == Get(seg, PB_ARK_JSON, None)
        data == JsonLoads(json_str)
        app == Get(data.v, "app", None)
        prompt == Get(data.v, "prompt", PyStr(<<>>))
        view == Get(data.v, "view", None)
    IN  IF ~Truthy(json_str) THEN None
        ELSE IF json_str.t \notin {"bytes", "str"} \/ data = EXC \/ data.t # "dict"
        THEN CARD_FAILED
        ELSE IF app = PyStr(<<"com.tencent.map">>) /\ view = PyStr(<<"LocationShare">>)
        THEN LET loc_data == MetaOf(data.v, "Location.Search")
             IN  IF loc_data = None
                 THEN PyStr(<<"[", "location", "]", SPACE>> \o Shown(prompt))
                 ELSE IF loc_data.t # "dict" THEN CARD_FAILED
                 ELSE PyStr(<<"[", "location: ">>
                            \o PlaceholderOr(Get(loc_data.v, "name", None),
                                             <<"unknown-place">>)
                            \o <<" | address: ">>
                            \o PlaceholderOr(Get(loc_data.v, "address", None),
                                             <<"no-address">>)
                            \o <<"]">>)
        ELSE IF app = PyStr(<<"com.tencent.music.lua">>) /\ view = PyStr(<<"music">>)
        THEN LET music_data == MetaOf(data.v, "music")
             IN  IF music_data = None
                 THEN PyStr(<<"[", "share", "]", SPACE>> \o Shown(prompt))
                 ELSE IF music_data.t # "dict" THEN CARD_FAILED
                 ELSE PyStr(<<"[", "share", "]", SPACE>>
                            \o PlaceholderOr(Get(music_data.v, "title", None), NA)
                            \o <<" - ">>
                            \o PlaceholderOr(Get(music_data.v, "desc", None), NA))
        ELSE IF app = PyStr(<<"com.tencent.contact.lua">>) /\ prompt.t # "str"
        THEN CARD_FAILED        \* `"..." in prompt` raises TypeError
        ELSE IF /\ app = PyStr(<<"com.tencent.contact.lua">>)
                /\ Contains(prompt.v, "recommended-contact")
        THEN PyStr(<<"[", "contact-card", "]", SPACE>> \o _sanitize_newlines(prompt.v))
        ELSE IF app = PyStr(<<"com.tencent.miniapp_01">>) /\ prompt.t # "str"
        THEN CARD_FAILED
        ELSE IF /\ app = PyStr(<<"com.tencent.miniapp_01">>)
                /\ Contains(prompt.v, "[QQ-miniapp]")
        THEN PyStr(_sanitize_newlines(prompt.v))
        ELSE IF app = PyStr(<<"com.tencent.multimsg">>)
        THEN LET meta == Get(data.v, "meta", PyDict(<<>>))
                 detail == IF meta.t = "dict" THEN Get(meta.v, "detail", PyDict(<<>>))
                           ELSE EXC
                 source == IF detail.t = "dict"
                           THEN Get(detail.v, "source", PyStr(<<"unknown">>)) ELSE EXC
                 summary == IF detail.t = "dict"
                            THEN Get(detail.v, "summary", PyStr(<<"view-forward">>))
                            ELSE EXC
             IN  IF source = EXC THEN CARD_FAILED
                 ELSE PyStr(<<"[", "chat-history", "]", SPACE>>
                            \o _sanitize_newlines(Shown(source)) \o <<":", SPACE>>
                            \o _sanitize_newlines(Shown(summary)))
        ELSE None

---------------------------------------------------------------------------
(* decode_message_content, old.py:706-788 *)

\* an entry counts only when its text is not empty
InCache_nonEmpty(ts, cache) ==
    ts.t = "int" /\ ts.v \in DOMAIN cache /\ cache[ts.v] # <<>>

\* `ts in cache`: the caches are keyed by the integer row timestamps
InCache(ts, cache) == ts.t = "int" /\ ts.v \in DOMAIN cache

\* a bare value taken as it is: the loop over it meets no segment
AsList_bare(x) == IF x.t = "list" THEN x.v ELSE <<>>

\* old.py:716, 746  a bare value is wrapped into a one-element list
AsList(x) == IF x.t = "list" THEN x.v ELSE <<x>>

\* old.py:748  " ".join(filter(None, origin_content_parts))
JoinNonEmpty(rendered) ==
    IF \E k \in DOMAIN rendered : rendered[k] = EXC THEN EXC
    ELSE PyStr(Join(SelectSeq([k \in DOMAIN rendered |-> rendered[k].v],
                             LAMBDA r : r # <<>>)))

\* old.py:743-748  the inlined original objects, rendered and joined
InlinedOrigin(seg, export_config) ==
    IF ~Truthy(Get(seg, PB_REPLY_ORIGIN_OBJ, None)) THEN PyStr(<<>>)
    ELSE JoinNonEmpty([k \in DOMAIN AsList(seg[PB_REPLY_ORIGIN_OBJ]) |->
                          _parse_single_segment(AsList(seg[PB_REPLY_ORIGIN_OBJ])[k],
                                                export_config)])

\* the Quote Resolver with the embedded summary consulted before the caches
OriginContent_summaryFirst(seg, mcc, sc, export_config) ==
    LET ts == Get(seg, PB_REPLY_ORIGIN_TS, None)
        raw_origin_content ==
            decode_ignore(Get(seg, PB_REPLY_ORIGIN_SUMMARY_TEXT, PyBytes(<<>>)))
    IN  IF Unhashable(ts) \/ raw_origin_content = EXC THEN EXC
        ELSE IF raw_origin_content.v # <<>>
        THEN PyStr(_sanitize_newlines(raw_origin_content.v))
        ELSE IF InCache(ts, mcc) THEN PyStr(mcc[ts.v])
        ELSE IF InCache(ts, sc) THEN PyStr(_sanitize_newlines(sc[ts.v]))
        ELSE InlinedOrigin(seg, export_config)

\* the Quote Resolver with SALVAGE_CACHE consulted before MESSAGE_CONTENT_CACHE
OriginContent_salvageFirst(seg, mcc, sc, export_config) ==
    LET ts == Get(seg, PB_REPLY_ORIGIN_TS, None)
        raw_origin_content ==
            decode_ignore(Get(seg, PB_REPLY_ORIGIN_SUMMARY_TEXT, PyBytes(<<>>)))
    IN  IF Unhashable(ts) THEN EXC
        ELSE IF InCache(ts, sc) THEN PyStr(_sanitize_newlines(sc[ts.v]))
        ELSE IF InCache(ts, mcc) THEN PyStr(mcc[ts.v])
        ELSE IF raw_origin_content = EXC THEN EXC
        ELSE IF _sanitize_newlines(raw_origin_content.v) # <<>>
        THEN PyStr(_sanitize_newlines(raw_origin_content.v))
        ELSE InlinedOrigin(seg, export_config)

\* old.py:728-748  the Quote Resolver: the text shown for the quoted original
OriginContent(seg, mcc, sc, export_config) ==
    LET ts == Get(seg, PB_REPLY_ORIGIN_TS, None)
        raw_origin_content ==
            decode_ignore(Get(seg, PB_REPLY_ORIGIN_SUMMARY_TEXT, PyBytes(<<>>)))
    IN  IF Unhashable(ts) THEN EXC
        ELSE IF InCache(ts, mcc) THEN PyStr(mcc[ts.v])
        ELSE IF InCache(ts, sc) THEN PyStr(_sanitize_newlines(sc[ts.v]))
        ELSE IF raw_origin_content = EXC THEN EXC
        ELSE IF _sanitize_newlines(raw_origin_content.v) # <<>>
        THEN PyStr(_sanitize_newlines(raw_origin_content.v))
        ELSE InlinedOrigin(seg, export_config)

\* the first five characters of a rendered reply, "[引用->" in the source
REPLY_PREFIX == <<"[", "yin", "yong", "-", ">">>

\* the fragment of a reply is the quoted text alone, without the frame
ReplyFragment_bare(seg, origin_content, is_timeline) ==
    LET s_uid == decode_strict(Get(seg, PB_REPLY_ORIGIN_SENDER_UID, PyBytes(<<>>)))
        r_uid == decode_strict(Get(seg, PB_REPLY_ORIGIN_RECEIVER_UID, PyBytes(<<>>)))
    IN  IF origin_content = EXC \/ s_uid = EXC \/ (is_timeline /\ r_uid = EXC) THEN EXC
        ELSE PyStr(origin_content.v)

\* old.py:750-758  the fragment of a reply, given the quoted text
ReplyFragment(seg, origin_content, is_timeline) ==
    LET ts == Get(seg, PB_REPLY_ORIGIN_TS, None)
        s_uid == decode_strict(Get(seg, PB_REPLY_ORIGIN_SENDER_UID, PyBytes(<<>>)))
        r_uid == decode_strict(Get(seg, PB_REPLY_ORIGIN_RECEIVER_UID, PyBytes(<<>>)))
    IN  IF origin_content = EXC \/ s_uid = EXC \/ (is_timeline /\ r_uid = EXC) THEN EXC
        ELSE PyStr(REPLY_PREFIX \o format_timestamp(ts) \o <<SPACE>>
                   \o get_display_name(get_placeholder(s_uid.v))
                   \o (IF is_timeline
                       THEN <<SPACE, "-", ">", SPACE>>
                            \o get_display_name(get_placeholder(r_uid.v))
                       ELSE <<>>)
                   \o <<":", SPACE>> \o origin_content.v \o <<"]">>)

\* old.py:727-758  a reply segment
ReplyPart(seg, mcc, sc, export_config, is_timeline) ==
    ReplyFragment(seg, OriginContent(seg, mcc, sc, export_config), is_timeline)

\* old.py:760-763  a call segment
CallPart(seg) ==
    LET status == decode_ignore(Get(seg, PB_CALL_STATUS, PyBytes(<<>>)))
        call_type == IF EqInt(Get(seg, PB_CALL_TYPE, None), 1) THEN "voice-call"
                     ELSE IF EqInt(Get(seg, PB_CALL_TYPE, None), 2) THEN "video-call"
                     ELSE "call"
    IN  IF status = EXC THEN EXC
        ELSE PyStr(<<"[", call_type, "]", SPACE>> \o status.v)

\* old.py:764-770  a voice segment
VoicePart(seg, export_config) ==
    LET text_raw == decode_ignore(Get(seg, PB_VOICE_TO_TEXT, PyBytes(<<>>)))
    IN  IF text_raw = EXC THEN EXC
        ELSE IF text_raw.v # <<>> /\ export_config.show_voice_to_text
        THEN PyStr(<<"[", "voice", "]", SPACE, "to-text:">>
                   \o _sanitize_newlines(text_raw.v))
        ELSE PyStr(<<"[", "voice", "]">>)

\* a loop without the test of line 722
NotInTypeMap_never(msg_type) == FALSE

\* old.py:722  `msg_type not in MSG_TYPE_MAP`, for a hashable msg_type
NotInTypeMap(msg_type) == ~InIntMap(msg_type, MSG_TYPE_MAP)

\* old.py:719-773  what one element of the container contributes: a fragment,
\* a falsy value (nothing is appended), or EXC
SegmentPart(segment, mcc, sc, export_config, is_timeline) ==
    IF segment.t # "dict" THEN None
    ELSE
    LET seg == segment.v
        msg_type == Get(seg, PB_MSG_TYPE, None)
    IN  IF Unhashable(msg_type) THEN EXC
        ELSE IF NotInTypeMap(msg_type) THEN None
        ELSE CASE EqInt(msg_type, 1) ->
                    LET text == decode_ignore(Get(seg, PB_TEXT_CONTENT, PyBytes(<<>>)))
                    IN  IF text = EXC THEN EXC ELSE PyStr(_sanitize_newlines(text.v))
               [] EqInt(msg_type, 7) -> ReplyPart(seg, mcc, sc, export_config, is_timeline)
               [] EqInt(msg_type, 21) -> CallPart(seg)
               [] EqInt(msg_type, 4) -> VoicePart(seg, export_config)
               [] EqInt(msg_type, 8) -> decode_gray_tip(seg, export_config)
               [] EqInt(msg_type, 10) -> decode_ark_message(seg)
               [] OTHER -> _parse_single_segment(segment, export_config)

\* old.py:715  the fragment returned when the container field is absent
STRUCTURE_ERROR == PyStr(<<"[", "structure-error: no message container", "]">>)

\* `return parts` in the place of `return parts or None`
PartsOrNone_parts(each) ==
    IF \E k \in DOMAIN each : each[k] = EXC THEN EXC
    ELSE PyList(SelectSeq(each, Truthy))

\* a loop that puts each fragment before the ones it has: parts.insert(0, part)
PartsOrNone_reversed(each) ==
    IF \E k \in DOMAIN each : each[k] = EXC THEN EXC
    ELSE IF \E k \in DOMAIN each : Truthy(each[k])
    THEN LET parts == SelectSeq(each, Truthy)
         IN  PyList([k \in 1..Len(parts) |-> parts[Len(parts) + 1 - k]])
    ELSE None

\* old.py:718-775  the loop over the segments and `return parts or None`;
\* an exception in any segment leaves the try block
PartsOrNone(each) ==
    IF \E k \in DOMAIN each : each[k] = EXC THEN EXC
    ELSE IF \E k \in DOMAIN each : Truthy(each[k]) THEN PyList(SelectSeq(each, Truthy))
    ELSE None

\* a blob without the container field raises, as an undecodable one does
Structured_noContainerRaises(content, mcc, sc, export_config, is_timeline) ==
    IF content.pb = EXC THEN EXC
    ELSE IF Get(content.pb.v, PB_MSG_CONTAINER, None) = None
    THEN EXC
    ELSE PartsOrNone([k \in DOMAIN AsList(content.pb.v[PB_MSG_CONTAINER]) |->
                         SegmentPart(AsList(content.pb.v[PB_MSG_CONTAINER])[k],
                                     mcc, sc, export_config, is_timeline)])

\* old.py:713-775  the try block: the value returned, or EXC
Structured(content, mcc, sc, export_config, is_timeline) ==
    IF content.pb = EXC THEN EXC
    ELSE IF Get(content.pb.v, PB_MSG_CONTAINER, None) = None
    THEN PyList(<<STRUCTURE_ERROR>>)
    ELSE PartsOrNone([k \in DOMAIN AsList(content.pb.v[PB_MSG_CONTAINER]) |->
                         SegmentPart(AsList(content.pb.v[PB_MSG_CONTAINER])[k],
                                     mcc, sc, export_config, is_timeline)])

\* the outcome of a call: the value returned, whether the except branch ran,
\* and what that branch stored in SALVAGE_CACHE[timestamp]
Returned(value) == [result |-> value, failed |-> FALSE, stored |-> <<>>]
SalvagedOutcome(salvage) ==
    [result |-> PyList(salvage.parts), failed |-> TRUE, stored |-> salvage.stored]
TryExcept(tried, salvage) ==
    IF tried = EXC THEN SalvagedOutcome(salvage) ELSE Returned(tried)

\* old.py:706  decode_message_content.  content is [raw, pb]: the bytes and
\* what blackboxprotobuf.decode_message makes of them (a dict, or EXC when
\* it raises).
decode_message_content(content, mcc, sc, export_config, is_timeline) ==
    IF content.raw = <<>> THEN Returned(None)
    ELSE TryExcept(Structured(content, mcc, sc, export_config, is_timeline),
                   SalvageChain(content.raw))

---------------------------------------------------------------------------
(* The writers, old.py:1261-1495: what each stores in MESSAGE_CONTENT_CACHE *)

\* str(p) of a fragment
StrOf(p) == IF p.t = "str" THEN p.v ELSE <<"{interactive_tip}">>

\* old.py:1271, 1344, 1454  is_reply
IsReply(parts) ==
    /\ parts[1].t = "str"
    /\ Len(parts[1].v) >= Len(REPLY_PREFIX)
    /\ SubSeq(parts[1].v, 1, Len(REPLY_PREFIX)) = REPLY_PREFIX

\* old.py:1352, 1466  re.search(r'\[引用->(.*)\]', p_str) finds a match
HasQuote(s) ==
    \E k \in 1..Len(s) :
        /\ k + Len(REPLY_PREFIX) - 1 <= Len(s)
        /\ SubSeq(s, k, k + Len(REPLY_PREFIX) - 1) = REPLY_PREFIX
        /\ \E j \in (k + Len(REPLY_PREFIX))..Len(s) : s[j] = "]"

\* old.py:1272  _write_txt: the fragments that are not dicts, joined
TxtText(parts) ==
    LET strs == SelectSeq(parts, LAMBDA q : q.t # "tip")
    IN  Join([k \in DOMAIN strs |-> StrOf(strs[k])])

\* html.escape(html.unescape(str(value))) on the characters of the model
HtmlEscapeChar(c) ==
    CASE c = "&" -> "&amp;"
      [] c = "<" -> "&lt;"
      [] c = ">" -> "&gt;"
      [] c = "\"" -> "&quot;"
      [] c = "'" -> "&#x27;"
      [] OTHER -> c
safe_escape(s) == [k \in DOMAIN s |-> HtmlEscapeChar(s[k])]

TipText(tip) == tip.actor \o <<SPACE>> \o tip.verb \o <<SPACE>> \o tip.target \o tip.suffix
TipTextHtml(tip) ==
    safe_escape(tip.actor) \o <<SPACE>> \o safe_escape(tip.verb) \o <<SPACE>>
    \o safe_escape(tip.target) \o safe_escape(tip.suffix)

\* old.py:1342-1358  _write_md: main_text
MdMainText(parts) ==
    IF ~IsReply(parts) /\ parts[1].t = "tip" THEN TipText(parts[1])
    ELSE LET main == SelectSeq(parts, LAMBDA q : ~HasQuote(StrOf(q)))
         IN  Join([k \in DOMAIN main |-> StrOf(main[k])])

\* old.py:1452-1472  _write_html: main_text
HtmlMainText(parts) ==
    IF ~IsReply(parts) /\ parts[1].t = "tip" THEN TipTextHtml(parts[1])
    ELSE LET main == SelectSeq(parts, LAMBDA q : ~HasQuote(StrOf(q)))
         IN  Join([k \in DOMAIN main |-> StrOf(main[k])])

---------------------------------------------------------------------------
(* The inputs: blobs, rows and configurations *)

Timestamps == 1..MaxTs
\* a row timestamp past the range of datetime.fromtimestamp
BadTs == MaxTs + 1

Blob(raw, top) == [raw |-> raw, pb |-> PyDict(top)]
\* the bytes of a decodable blob: a tag byte and some text
RAW == <<CTRL, "a">>
One(segment) == Blob(RAW, (PB_MSG_CONTAINER :> segment))
Many(segments) == Blob(RAW, (PB_MSG_CONTAINER :> PyList(segments)))
Undecodable(raw) == [raw |-> raw, pb |-> EXC]

TextSeg(s) == PyDict((PB_MSG_TYPE :> PyInt(1)) @@ (PB_TEXT_CONTENT :> PyBytes(s)))
\* a text segment whose content field the decoder delivered as an integer
BadTextSeg == PyDict((PB_MSG_TYPE :> PyInt(1)) @@ (PB_TEXT_CONTENT :> PyInt(5)))
\* a segment of a type MSG_TYPE_MAP does not know
UnknownSeg == PyDict((PB_MSG_TYPE :> PyInt(99)) @@ (PB_TEXT_CONTENT :> PyBytes(<<"u">>)))
\* a segment whose type field the decoder delivered as a nested message
DictTypeSeg == PyDict((PB_MSG_TYPE :> PyDict(<<>>)))
MarkdownSeg == PyDict((PB_MSG_TYPE :> PyInt(14)))
PokeSeg == PyDict((PB_MSG_TYPE :> PyInt(8))
               @@ (PB_GRAYTIP_INTERACTIVE_XML
                   :> PyXml(<<<<"u_A">>, <<"u_B">>>>, <<<<"p">>>>)))
OtherTipSeg == PyDict((PB_MSG_TYPE :> PyInt(8)))

\* a recall notice: the recaller's identifier, and where they are not None
\* the embedded name and the suffix
RecallSeg(uid, name, suffix) ==
    PyDict((PB_MSG_TYPE :> PyInt(8)) @@ (PB_RECALLER_UID :> uid)
        @@ (IF name = None THEN <<>> ELSE (PB_RECALLER_NAME :> name))
        @@ (IF suffix = None THEN <<>> ELSE (PB_RECALL_SUFFIX :> suffix)))

SUMMARY == <<"s">>
ReplySeg(ts, summary, more) ==
    PyDict((PB_MSG_TYPE :> PyInt(7)) @@ (PB_REPLY_ORIGIN_TS :> PyInt(ts))
        @@ (PB_REPLY_ORIGIN_SENDER_UID :> PyBytes(<<"u_A">>))
        @@ (PB_REPLY_ORIGIN_RECEIVER_UID :> PyBytes(<<"u_B">>))
        @@ (PB_REPLY_ORIGIN_SUMMARY_TEXT :> summary) @@ more)

\* the replies to a message of timestamp ts: with a summary, with an empty
\* summary and the original inlined, with both, and with the summary field
\* delivered as an integer
ReplyBlob(ts, variant) ==
    CASE variant = "summary" -> One(ReplySeg(ts, PyBytes(SUMMARY), <<>>))
      [] variant = "inlined" ->
            One(ReplySeg(ts, PyBytes(<<>>), (PB_REPLY_ORIGIN_OBJ :> TextSeg(<<"q">>))))
      [] variant = "both" ->
            One(ReplySeg(ts, PyBytes(SUMMARY), (PB_REPLY_ORIGIN_OBJ :> TextSeg(<<"q">>))))
      [] variant = "summary-int" -> One(ReplySeg(ts, PyInt(5), <<>>))

Replies ==
    {ReplyBlob(ts, v) : ts \in Timestamps,
                        v \in {"summary", "inlined", "both", "summary-int"}}

Contents ==
    { [raw |-> <<>>, pb |-> EXC],                   \* an empty blob
      Undecodable(<<"[", "a", "]">>),
      Undecodable(<<"a", LF, "a">>),
      Undecodable(<<CTRL>>),
      Blob(RAW, <<>>),                              \* no container field
      One(TextSeg(<<"o", "k">>)),
      One(TextSeg(<<"h", LF, "w">>)),
      One(MarkdownSeg),
      One(PokeSeg),
      One(OtherTipSeg),
      One(UnknownSeg),
      One(DictTypeSeg),
      Many(<<TextSeg(<<"o", "k">>), UnknownSeg>>),
      Many(<<TextSeg(<<"o", "k">>), BadTextSeg>>),
      \* messages of several segments, some of which yield nothing
      Many(<<TextSeg(<<"a">>), MarkdownSeg, TextSeg(<<"b">>)>>),
      Many(<<UnknownSeg, TextSeg(<<"b">>), PyInt(5), TextSeg(<<"a">>)>>),
      Many(<<PokeSeg, TextSeg(<<>>), TextSeg(<<"a">>), OtherTipSeg>>),
      Many(<<>>),
      \* a file, a call, a red packet and an emoji whose text holds a newline
      One(PyDict((PB_MSG_TYPE :> PyInt(3))
                 @@ (PB_FILE_NAME :> PyBytes(<<"a", LF, "b">>)))),
      One(PyDict((PB_MSG_TYPE :> PyInt(21))
                 @@ (PB_CALL_STATUS :> PyBytes(<<"a", LF, "b">>)))),
      One(PyDict((PB_MSG_TYPE :> PyInt(9))
                 @@ (PB_REDPACKET_BODY :>
                       PyDict((PB_REDPACKET_TITLE :> PyBytes(<<"a", LF, "b">>)))))),
      One(PyDict((PB_MSG_TYPE :> PyInt(6))
                 @@ (PB_EMOJI_DESC :> PyBytes(<<"/", "a", LF>>)))) }
    \cup Replies

\* the blobs of the rows of a job of several rows: what fills the caches, and
\* the replies that read them
JobContents ==
    { [raw |-> <<>>, pb |-> EXC],
      Undecodable(<<"a", LF, "a">>),
      Undecodable(<<CTRL>>),
      One(TextSeg(<<"o", "k">>)),
      One(TextSeg(<<"h", LF, "w">>)),
      One(UnknownSeg) }
    \cup {ReplyBlob(ts, v) : ts \in Timestamps, v \in {"inlined", "both", "summary-int"}}

Row(ts, content) == [ts |-> ts, content |-> content]

RowSet ==
    {Row(ts, c) : ts \in Timestamps, c \in JobContents}
    \cup {Row(BadTs, One(TextSeg(<<"o", "k">>)))}

\* the query sorts the rows: ORDER BY timestamp ASC (old.py:1547, 1591)
Sorted(rs) == \A k \in 1..(Len(rs) - 1) : rs[k].ts <= rs[k + 1].ts

RowSeqs == {rs \in UNION {[1..n -> RowSet] : n \in 1..MaxRows} : Sorted(rs)}

\* the jobs of a collision: two different messages of one timestamp, neither
\* a reply and each rendering some fragment, then a reply to that timestamp
CollisionRows ==
    {rs \in {<<Row(ts, a), Row(ts, b), Row(ts2, ReplyBlob(ts, v))>> :
                ts \in Timestamps, ts2 \in Timestamps,
                a \in JobContents \cup {One(PokeSeg)},
                b \in JobContents \cup {One(PokeSeg)},
                v \in {"both", "summary-int"}} :
        /\ Sorted(rs) /\ rs[1] # rs[2]
        /\ \A k \in 1..2 :
              rs[k].content \in {Undecodable(<<"a", LF, "a">>), Undecodable(<<CTRL>>),
                                 One(TextSeg(<<"o", "k">>)), One(TextSeg(<<"h", LF, "w">>)),
                                 One(PokeSeg)}}

\* the jobs of a chain of quotes: a message that is no reply (it may render
\* nothing), a reply of the same timestamp, then a reply to that timestamp
QuoteChainRows ==
    {<<Row(1, a), Row(1, ReplyBlob(1, "both")), Row(2, ReplyBlob(1, v))>> :
        a \in {One(TextSeg(<<"o", "k">>)), Undecodable(<<"a", LF, "a">>),
               Blob(RAW, <<>>), One(UnknownSeg), [raw |-> <<>>, pb |-> EXC]},
        v \in {"both", "inlined"}}

\* old.py:153  the default export_config
DefaultConfig ==
    [show_recall |-> TRUE, show_recall_suffix |-> TRUE, show_poke |-> TRUE,
     show_voice_to_text |-> TRUE, show_media_info |-> FALSE]

Configs ==
    [export_format : {"txt", "md", "html"}, is_timeline : BOOLEAN, export_config : {DefaultConfig}]

---------------------------------------------------------------------------
(* process_and_write, old.py:1497-1521: the pre-filter pass over the rows,
   then the writer of the chosen format over the rows it kept *)

NoCall == [phase |-> "none"]

\* one call decode_message_content(row content, row timestamp, ...): the
\* outcome, and the write of SALVAGE_CACHE the except branch makes
Outcome(row) ==
    decode_message_content(row.content, MESSAGE_CONTENT_CACHE, SALVAGE_CACHE,
                           config.export_config, config.is_timeline)

\* the store moved out of the except branch
SalvageStore_always(row, out) == Put(SALVAGE_CACHE, row.ts, out.stored)

SalvageStore(row, out) ==
    IF out.failed THEN Put(SALVAGE_CACHE, row.ts, out.stored) ELSE SALVAGE_CACHE

CallRecord(phase, k, row, out) ==
    [phase |-> phase, index |-> k, content |-> row.content, timestamp |-> row.ts,
     mcc |-> MESSAGE_CONTENT_CACHE, sc |-> SALVAGE_CACHE,
     result |-> out.result, failed |-> out.failed]

Init ==
    /\ SALVAGE_CACHE = EmptyCache
    /\ MESSAGE_CONTENT_CACHE = EmptyCache
    /\ rows \in RowSeqs \cup CollisionRows
    /\ config \in Configs
    /\ valid_rows = <<>>
    /\ pc = "prefilter"
    /\ idx = 1
    /\ count = 0
    /\ call = NoCall
    /\ msg_blob = None /\ raw_decoded = None /\ decoded_struct = None
    /\ peer_rows = <<>> /\ peer_index = 0

\* old.py:1503  one row of the list comprehension
Prefilter ==
    /\ pc = "prefilter" /\ idx <= Len(rows)
    /\ \E out \in {Outcome(rows[idx])} :
           /\ SALVAGE_CACHE' = SalvageStore(rows[idx], out)
           /\ valid_rows' = IF Truthy(out.result) THEN Append(valid_rows, rows[idx])
                            ELSE valid_rows
           /\ call' = CallRecord("prefilter", idx, rows[idx], out)
    /\ idx' = idx + 1
    /\ UNCHANGED <<MESSAGE_CONTENT_CACHE, rows, config, pc, count, export_vars, peer_vars>>

\* old.py:1505-1519  no valid row: return 0; else open the file and write
PrefilterDone ==
    /\ pc = "prefilter" /\ idx > Len(rows)
    /\ pc' = IF valid_rows = <<>> THEN "done" ELSE "write"
    /\ idx' = 1
    /\ UNCHANGED <<SALVAGE_CACHE, MESSAGE_CONTENT_CACHE, rows, config, valid_rows,
                   count, call, export_vars, peer_vars>>

\* one iteration of a writer's loop over valid_rows, given the row and the
\* outcome of its decode_message_content call: main_text is the text the
\* writer makes of the fragments (it is used only when there are any), guarded is whether the writer formats the row's time with
\* format_timestamp rather than with a bare datetime.fromtimestamp(ts)
WriteRow_storeAll(row, out, main_text, guarded) ==
    /\ SALVAGE_CACHE' = SalvageStore(row, out)
    /\ call' = CallRecord("write", idx, row, out)
    /\ IF ~Truthy(out.result)
       THEN /\ idx' = idx + 1
            /\ UNCHANGED <<MESSAGE_CONTENT_CACHE, pc, count>>
       ELSE IF ~guarded /\ FromTimestampRaises(row.ts)
       THEN /\ pc' = "raised"
            /\ UNCHANGED <<MESSAGE_CONTENT_CACHE, idx, count>>
       ELSE \* the text is stored whether or not the message is a reply
            /\ MESSAGE_CONTENT_CACHE' = Put(MESSAGE_CONTENT_CACHE, row.ts, main_text)
            /\ idx' = idx + 1
            /\ count' = count + 1
            /\ pc' = pc
    /\ UNCHANGED <<rows, config, valid_rows, export_vars, peer_vars>>

WriteRow(row, out, main_text, guarded) ==
    /\ SALVAGE_CACHE' = SalvageStore(row, out)
    /\ call' = CallRecord("write", idx, row, out)
    /\ IF ~Truthy(out.result)
       THEN \* `if not parts: continue`
            /\ idx' = idx + 1
            /\ UNCHANGED <<MESSAGE_CONTENT_CACHE, pc, count>>
       ELSE IF ~guarded /\ FromTimestampRaises(row.ts)
       THEN \* the exception leaves the writer and process_and_write
            /\ pc' = "raised"
            /\ UNCHANGED <<MESSAGE_CONTENT_CACHE, idx, count>>
       ELSE /\ MESSAGE_CONTENT_CACHE' =
                 IF IsReply(out.result.v) THEN MESSAGE_CONTENT_CACHE
                 ELSE Put(MESSAGE_CONTENT_CACHE, row.ts, main_text)
            /\ idx' = idx + 1
            /\ count' = count + 1
            /\ pc' = pc
    /\ UNCHANGED <<rows, config, valid_rows, export_vars, peer_vars>>

\* old.py:1266-1295  _write_txt writes the time with format_timestamp
WriteTxtRow ==
    /\ pc = "write" /\ config.export_format = "txt" /\ idx <= Len(valid_rows)
    /\ \E out \in {Outcome(valid_rows[idx])} :
           WriteRow(valid_rows[idx], out, TxtText(out.result.v), TRUE)

\* old.py:1307-1373  _write_md calls datetime.fromtimestamp(ts) at line 1312
WriteMdRow ==
    /\ pc = "write" /\ config.export_format = "md" /\ idx <= Len(valid_rows)
    /\ \E out \in {Outcome(valid_rows[idx])} :
           WriteRow(valid_rows[idx], out, MdMainText(out.result.v), FALSE)

\* old.py:1413-1487  _write_html calls datetime.fromtimestamp(ts) at line 1418
WriteHtmlRow ==
    /\ pc = "write" /\ config.export_format = "html" /\ idx <= Len(valid_rows)
    /\ \E out \in {Outcome(valid_rows[idx])} :
           WriteRow(valid_rows[idx], out, HtmlMainText(out.result.v), FALSE)

\* the writer's loop is over: old.py:1296, 1374 return count; old.py:1495
\* _write_html returns len(rows)
WriteDone ==
    /\ pc = "write" /\ idx > Len(valid_rows)
    /\ pc' = "done"
    /\ count' = IF config.export_format = "html" THEN Len(valid_rows) ELSE count
    /\ UNCHANGED <<SALVAGE_CACHE, MESSAGE_CONTENT_CACHE, rows, config, valid_rows,
                   idx, call, export_vars, peer_vars>>

Next ==
    \/ Prefilter
    \/ PrefilterDone
    \/ WriteTxtRow
    \/ WriteMdRow
    \/ WriteHtmlRow
    \/ WriteDone

Spec == Init /\ [][Next]_vars

\* the jobs in which a reply follows the message it quotes: a collision or a
\* chain of quotes
InitQuotes ==
    /\ SALVAGE_CACHE = EmptyCache
    /\ MESSAGE_CONTENT_CACHE = EmptyCache
    /\ rows \in QuoteChainRows \cup CollisionRows
    /\ config \in Configs
    /\ valid_rows = <<>>
    /\ pc = "prefilter"
    /\ idx = 1
    /\ count = 0
    /\ call = NoCall
    /\ msg_blob = None /\ raw_decoded = None /\ decoded_struct = None
    /\ peer_rows = <<>> /\ peer_index = 0

SpecQuotes == InitQuotes /\ [][Next]_vars

---------------------------------------------------------------------------
(* A job of one row, started with empty caches: the blob is any of Contents,
   or takes the except branch with its bytes enumerated exhaustively *)

\* every byte string of 1..MaxBlobLen bytes
ShortBlobs == UNION {[1..n -> ByteChars] : n \in 1..MaxBlobLen}

\* "[", n letters, "]"
Bracketed(n) == <<"[">> \o [k \in 1..n |-> "a"] \o <<"]">>

\* byte strings around the longest bracket token the pattern accepts, and a
\* bracket token inside a longer printable run
LongBlobs ==
    {Bracketed(BRACKET_MAX), Bracketed(BRACKET_MAX + 1),
     <<"a", "a", CTRL>> \o Bracketed(BRACKET_MAX),
     Bracketed(BRACKET_MAX + 1) \o <<"[", "a", "]">>,
     <<"a", "a", "[", "a", "]", "a">>}

\* a blob the decoder rejects, and a blob it accepts whose text segment then
\* raises in the loop
FailingContents ==
    {Undecodable(b) : b \in ShortBlobs \cup LongBlobs}
    \cup {Blob(b, (PB_MSG_CONTAINER :> BadTextSeg)) : b \in LongBlobs \cup {RAW}}

\* messages of one text segment: every short byte string, and texts that
\* hold the characters of the sentinel themselves
TextContents ==
    {One(TextSeg(b)) : b \in ShortBlobs \cup {SENTINEL, <<"a">> \o SENTINEL \o <<"b">>}}

\* messages of one gray tip: pokes (well formed, of one identifier only, with
\* an XML field that is no bytes, with a recaller identifier too), recall
\* notices, and a tip of neither kind
TipContents ==
    {One(PokeSeg), One(OtherTipSeg),
     One(PyDict((PB_MSG_TYPE :> PyInt(8))
                @@ (PB_GRAYTIP_INTERACTIVE_XML
                    :> PyXml(<<<<"u_X">>, <<"u_A">>>>, <<<<>>, <<"s", LF>>>>)))),
     One(PyDict((PB_MSG_TYPE :> PyInt(8))
                @@ (PB_GRAYTIP_INTERACTIVE_XML :> PyXml(<<<<"u_A">>>>, <<<<"p">>>>)))),
     One(PyDict((PB_MSG_TYPE :> PyInt(8)) @@ (PB_GRAYTIP_INTERACTIVE_XML :> PyInt(5)))),
     One(PyDict((PB_MSG_TYPE :> PyInt(8)) @@ (PB_RECALLER_UID :> PyBytes(<<"u_A">>))
                @@ (PB_GRAYTIP_INTERACTIVE_XML :> PyInt(5)))),
     One(PyDict(PokeSeg.v @@ (PB_RECALLER_UID :> PyBytes(<<"u_A">>))))}
    \cup {One(RecallSeg(uid, name, suffix)) :
            uid \in {PyBytes(<<"u_A">>), PyBytes(<<"u_X">>), PyStr(<<"u_X">>),
                     PyBytes(<<>>), PyInt(5)},
            name \in {None, PyBytes(<<>>), PyBytes(<<"B", "o", "b">>),
                      PyStr(<<"B", "o", "b">>), PyInt(5)},
            suffix \in {None, PyBytes(<<>>), PyBytes(<<"x">>), PyStr(<<"x", LF>>), PyInt(5)}}

\* messages of one card: the payload absent, empty, no JSON, JSON that is no
\* object, and objects of each application the decoder knows and of others
CardContents ==
    LET Str(x) == PyStr(<<x>>)
        Card(fields) == PyJson(PyDict(fields))
        Metas == {<<>>, ("meta" :> PyInt(5)), ("meta" :> PyDict(<<>>)),
                  ("meta" :> PyDict(("Location.Search" :>
                                       PyDict(("name" :> Str("n"))))
                                    @@ ("music" :> PyDict(("title" :> Str("t"))))
                                    @@ ("detail" :> PyDict(("source" :> Str("s")))))),
                  ("meta" :> PyDict(("Location.Search" :> PyInt(5))
                                    @@ ("music" :> PyInt(5))
                                    @@ ("detail" :> PyInt(5))))}
        Prompts == {<<>>, ("prompt" :> PyInt(5)),
                    ("prompt" :> PyStr(<<"recommended-contact", LF>>)),
                    ("prompt" :> PyStr(<<"[QQ-miniapp]", LF>>)),
                    ("prompt" :> PyStr(<<"p">>))}
        Apps == {("app" :> Str("com.tencent.map")) @@ ("view" :> Str("LocationShare")),
                 ("app" :> Str("com.tencent.music.lua")) @@ ("view" :> Str("music")),
                 ("app" :> Str("com.tencent.map")),
                 ("app" :> Str("com.tencent.contact.lua")),
                 ("app" :> Str("com.tencent.miniapp_01")),
                 ("app" :> Str("com.tencent.multimsg")),
                 ("app" :> Str("com.other")),
                 <<>>}
        Payloads == {PyBytes(<<>>), PyInt(5), PyJson(EXC), PyJson(PyList(<<>>)),
                     [t |-> "str", v |-> <<"{json}">>, json |-> PyDict(<<>>)]}
                    \cup {Card(a @@ p @@ m) : a \in Apps, p \in Prompts, m \in Metas}
    IN  {One(PyDict((PB_MSG_TYPE :> PyInt(10))))}
        \cup {One(PyDict((PB_MSG_TYPE :> PyInt(10)) @@ (PB_ARK_JSON :> x))) :
                x \in Payloads}

\* messages of one image: each subtype the parser tells apart, the flash flag
\* absent, 1 and other values, the width and the height absent, 0 and set
ImageContents ==
    LET Opt(key, values) == {<<>>} \cup {(key :> PyInt(n)) : n \in values}
    IN  {One(PyDict((PB_MSG_TYPE :> PyInt(2)) @@ st @@ fl @@ w @@ h)) :
            st \in Opt(PB_MSG_SUBTYPE, {0, 1, 7}),
            fl \in Opt(PB_IMAGE_IS_FLASH, {0, 1, 2}),
            w \in Opt(PB_IMG_WIDTH, {0, 100}),
            h \in Opt(PB_IMG_HEIGHT, {0, 200})}

\* the configurations of show_media_info
MediaConfigs ==
    [export_format : {"txt", "md", "html"}, is_timeline : {FALSE},
     export_config : {[DefaultConfig EXCEPT !.show_media_info = b] : b \in BOOLEAN}]

\* the configurations of the three gray-tip switches
TipConfigs ==
    [export_format : {"txt", "md", "html"}, is_timeline : {FALSE},
     export_config : [show_recall : BOOLEAN, show_recall_suffix : BOOLEAN,
                      show_poke : BOOLEAN, show_voice_to_text : {TRUE},
                      show_media_info : {FALSE}]]

InitOneRow ==
    /\ SALVAGE_CACHE = EmptyCache
    /\ MESSAGE_CONTENT_CACHE = EmptyCache
    /\ \/ /\ rows \in {<<Row(ts, c)>> :
                         ts \in Timestamps,
                         c \in Contents \cup FailingContents \cup TextContents
                               \cup CardContents}
          /\ config \in Configs
       \/ /\ rows \in {<<Row(1, c)>> : c \in TipContents}
          /\ config \in TipConfigs
       \/ /\ rows \in {<<Row(1, c)>> : c \in ImageContents}
          /\ config \in MediaConfigs
    /\ valid_rows = <<>>
    /\ pc = "prefilter"
    /\ idx = 1
    /\ count = 0
    /\ call = NoCall
    /\ msg_blob = None /\ raw_decoded = None /\ decoded_struct = None
    /\ peer_rows = <<>> /\ peer_index = 0

SpecOneRow == InitOneRow /\ [][Next]_vars

---------------------------------------------------------------------------
(* The structure export, mods/features/export_c2c.py (main.py holds the same
   two functions): each blob is decoded recursively and its keys are mapped.
   A bytes value that blackboxprotobuf.decode_message accepts carries, as
   msg, the message the decoder makes of it. *)

Wire(s, message) == [t |-> "bytes", v |-> s, msg |-> message]

\* blackboxprotobuf.decode_message(data): the message, or an exception
decode_message(data) == IF "msg" \in DOMAIN data THEN data.msg ELSE EXC

\* export_c2c.py:31-49
RECURSIVE recursive_decode(_)
recursive_decode(data) ==
    IF data.t # "bytes" THEN data
    ELSE IF data.v = <<>> THEN data
    ELSE LET message == decode_message(data)
         IN  IF message = EXC THEN data
             ELSE PyDict([key \in DOMAIN message |->
                            IF message[key].t = "list"
                            THEN PyList([i \in DOMAIN message[key].v |->
                                           recursive_decode(message[key].v[i])])
                            ELSE recursive_decode(message[key])])

\* proto_maps.py is not part of the sources: the three tables are taken from
\* what the specification says of them (a rename table from field ids to
\* semantic names, a type table from integers to labels, an ignore list)
PROTO_FIELD_MAP ==
    (PB_MSG_CONTAINER :> "MSG_CONTAINER") @@ (PB_MSG_TYPE :> "MSG_TYPE")
    @@ (PB_TEXT_CONTENT :> "TEXT_CONTENT")
PROTO_MSG_TYPE_MAP == (1 :> "text") @@ (2 :> "image")
IGNORE_IDS == {"40001", "40002"}

\* a filter of the ignore list alone
Dropped_ignoredOnly(key_str) == key_str \in IGNORE_IDS

\* a filter of the length alone
Dropped_lengthOnly(key_str) == Len(key_str) # 5

\* export_c2c.py:77  the keys the loop skips
Dropped(key_str) == key_str \in IGNORE_IDS \/ Len(key_str) # 5

\* a lookup that gives None for an identifier the table does not hold
readable_key_strict(key_str) ==
    IF key_str \in DOMAIN PROTO_FIELD_MAP THEN PROTO_FIELD_MAP[key_str] ELSE "None"

\* export_c2c.py:81  PROTO_FIELD_MAP.get(key_str, key_str)
readable_key(key_str) ==
    IF key_str \in DOMAIN PROTO_FIELD_MAP THEN PROTO_FIELD_MAP[key_str] ELSE key_str

\* export_c2c.py:84-90  match readable_key
Translated(name, processed_value) ==
    IF name = "MSG_TYPE" /\ processed_value.t = "int"
    THEN IF processed_value.v \in DOMAIN PROTO_MSG_TYPE_MAP
         THEN PyStr(PROTO_MSG_TYPE_MAP[processed_value.v])
         ELSE processed_value
    ELSE processed_value

\* export_c2c.py:61-94.  Of two keys of one name the loop keeps the one it
\* meets last; the messages here hold no two such keys.
RECURSIVE map_protobuf_keys(_)
map_protobuf_keys(data) ==
    IF data.t = "list"
    THEN PyList([i \in DOMAIN data.v |-> map_protobuf_keys(data.v[i])])
    ELSE IF data.t # "dict" THEN data
    ELSE LET kept == {key \in DOMAIN data.v : ~Dropped(key)}
         IN  PyDict([name \in {readable_key(key) : key \in kept} |->
                       Translated(name,
                                  map_protobuf_keys(
                                      data.v[CHOOSE key \in kept :
                                                 readable_key(key) = name]))])

\* the fields of the blobs: the container, the type, the text, an identifier
\* no table holds, two ignored ones, one too short and one too long
FieldIds ==
    {PB_MSG_CONTAINER, PB_MSG_TYPE, PB_TEXT_CONTENT, "49999", "40001", "40002",
     "1", "450020"}

\* the blobs of the exported rows: a message of one or two fields, whose
\* values are integers, undecodable bytes, nested messages (as bytes the
\* recursion decodes, or decoded by the decoder itself), and lists of them
MsgBlobs ==
    LET Leaves == {PyInt(1), PyInt(99), PyBytes(<<"a">>), PyBytes(<<>>)}
        Inner == {Wire(<<"i">>, (key :> v)) : key \in FieldIds, v \in Leaves}
        Nested == {Wire(<<"n">>, (PB_MSG_CONTAINER :>
                                    PyList(<<Wire(<<"i">>, (key :> PyInt(1))),
                                             PyInt(1)>>))) :
                     key \in FieldIds}
        Values == Leaves \cup Inner \cup Nested
                  \cup {PyList(<<a, PyBytes(<<"a">>)>>) : a \in Inner}
                  \cup {PyDict((key :> PyList(<<PyDict((key :> PyInt(1)))>>))) :
                          key \in FieldIds}
    IN  {Wire(<<"m">>, (key :> v)) : key \in FieldIds, v \in Values}
        \cup {Wire(<<"m">>, (PB_MSG_TYPE :> t) @@ (key :> v)) :
                t \in Leaves, key \in FieldIds \ {PB_MSG_TYPE},
                v \in {PyInt(1), PyList(<<PyInt(1)>>)}}
        \cup {PyBytes(<<"a">>), PyBytes(<<>>)}

InitExport ==
    /\ SALVAGE_CACHE = EmptyCache
    /\ MESSAGE_CONTENT_CACHE = EmptyCache
    /\ rows = <<>>
    /\ config = None
    /\ valid_rows = <<>>
    /\ pc = "export"
    /\ idx = 1
    /\ count = 0
    /\ call = NoCall
    /\ msg_blob \in MsgBlobs
    /\ raw_decoded = None /\ decoded_struct = None
    /\ peer_rows = <<>> /\ peer_index = 0

\* export_c2c.py:130-133  one row of the loop
ExportRow ==
    /\ msg_blob # None /\ raw_decoded = None
    /\ raw_decoded' = recursive_decode(msg_blob)
    /\ decoded_struct' = map_protobuf_keys(recursive_decode(msg_blob))
    /\ UNCHANGED <<SALVAGE_CACHE, MESSAGE_CONTENT_CACHE, rows, config, valid_rows,
                   pc, idx, count, call, msg_blob, peer_vars>>

SpecExport == InitExport /\ [][ExportRow]_vars

---------------------------------------------------------------------------
(* The menu of main.py offers both the structure export and the chat export
   (main.py:274 start_old_script) over one database: here one blob of it is
   read by both. *)

\* old.py:713  the blob as decode_message_content meets it
ContentOf(blob) ==
    [raw |-> blob.v,
     pb |-> IF decode_message(blob) = EXC THEN EXC ELSE PyDict(decode_message(blob))]

\* blobs whose container, and whose inlined original of a reply, the decoder
\* delivers bare or as a list
MenuBlobs ==
    LET Origins == {TextSeg(<<"q">>), PyList(<<TextSeg(<<"q">>)>>),
                    PyList(<<TextSeg(<<"q">>), TextSeg(<<"r">>)>>), PyBytes(<<"a">>)}
        Segs == {TextSeg(<<"o", "k">>), Wire(<<"i">>, TextSeg(<<"o", "k">>).v),
                 PyBytes(<<"a">>), PyInt(7)}
                \cup {ReplySeg(1, PyBytes(<<>>), (PB_REPLY_ORIGIN_OBJ :> o)) :
                        o \in Origins}
    IN  {Wire(RAW, (PB_MSG_CONTAINER :> x)) :
            x \in Segs \cup {PyList(<<x>>) : x \in Segs}
                      \cup {PyList(<<x, TextSeg(<<"o", "k">>)>>) : x \in Segs}}

InitMenu ==
    /\ SALVAGE_CACHE = EmptyCache
    /\ MESSAGE_CONTENT_CACHE = EmptyCache
    /\ msg_blob \in MenuBlobs
    /\ rows = <<Row(1, ContentOf(msg_blob))>>
    /\ config \in Configs
    /\ valid_rows = <<>>
    /\ pc = "prefilter"
    /\ idx = 1
    /\ count = 0
    /\ call = NoCall
    /\ raw_decoded = None /\ decoded_struct = None
    /\ peer_rows = <<>> /\ peer_index = 0

SpecMenu == InitMenu /\ [][Next \/ ExportRow]_vars

---------------------------------------------------------------------------
(* A per-friend export, old.py:1810-1814: export_one_on_one is called for one
   peer after another; the two caches are module globals (old.py:65-66) that
   no call resets. *)

\* what the query of old.py:1591 returns for a peer: no row, one message, or
\* one reply
PeerConversations ==
    {<<>>}
    \cup {<<Row(ts, a)>> :
            ts \in Timestamps,
            a \in {One(TextSeg(<<"o", "k">>)), One(TextSeg(<<"h", LF, "w">>)),
                   Undecodable(<<"a", LF, "a">>), One(UnknownSeg)}}
    \cup {<<Row(ts, ReplyBlob(ref, v))>> :
            ts \in Timestamps, ref \in Timestamps, v \in {"summary", "inlined"}}

InitFriends ==
    /\ SALVAGE_CACHE = EmptyCache
    /\ MESSAGE_CONTENT_CACHE = EmptyCache
    /\ rows = <<>>
    /\ config \in Configs
    /\ valid_rows = <<>>
    /\ pc = "done"
    /\ idx = 1
    /\ count = 0
    /\ call = NoCall
    /\ msg_blob = None /\ raw_decoded = None /\ decoded_struct = None
    /\ peer_rows \in [1..2 -> PeerConversations]
    /\ peer_index = 0

\* the caches are emptied before a peer's conversation is processed
export_one_on_one_cleared ==
    /\ pc = "done" /\ peer_index < Len(peer_rows)
    /\ peer_index' = peer_index + 1
    /\ rows' = peer_rows[peer_index + 1]
    /\ config' = [config EXCEPT !.is_timeline = FALSE]
    /\ IF peer_rows[peer_index + 1] = <<>>
       THEN UNCHANGED <<valid_rows, pc, idx, count>>
       ELSE /\ valid_rows' = <<>>
            /\ pc' = "prefilter"
            /\ idx' = 1
            /\ count' = 0
    /\ SALVAGE_CACHE' = EmptyCache
    /\ MESSAGE_CONTENT_CACHE' = EmptyCache
    /\ UNCHANGED <<call, peer_rows, export_vars>>

\* old.py:1570-1612  the next peer: the query, `if not rows: return`, else
\* process_and_write over the rows with is_timeline False
export_one_on_one ==
    /\ pc = "done" /\ peer_index < Len(peer_rows)
    /\ peer_index' = peer_index + 1
    /\ rows' = peer_rows[peer_index + 1]
    /\ config' = [config EXCEPT !.is_timeline = FALSE]
    /\ IF peer_rows[peer_index + 1] = <<>>
       THEN UNCHANGED <<valid_rows, pc, idx, count>>
       ELSE /\ valid_rows' = <<>>
            /\ pc' = "prefilter"
            /\ idx' = 1
            /\ count' = 0
    /\ UNCHANGED <<SALVAGE_CACHE, MESSAGE_CONTENT_CACHE, call, peer_rows, export_vars>>

SpecFriends == InitFriends /\ [][Next \/ export_one_on_one]_vars

---------------------------------------------------------------------------
(* Properties.  `call` holds the last call of decode_message_content: its
   arguments, the two caches as they were when it was made, and what it
   returned. *)

Called == call.phase # "none"

\* the elements of the container of the last call's blob
CallSegments ==
    IF call.content.pb = EXC \/ PB_MSG_CONTAINER \notin DOMAIN call.content.pb.v
    THEN <<>>
    ELSE AsList(call.content.pb.v[PB_MSG_CONTAINER])

IsReplySeg(x) == x.t = "dict" /\ EqInt(Get(x.v, PB_MSG_TYPE, None), 7)

\* the last call rendered a blob whose one segment is a reply
ReplyCall ==
    /\ Called /\ ~call.failed
    /\ Len(CallSegments) = 1 /\ IsReplySeg(CallSegments[1])

ReplySegOfCall == CallSegments[1].v
RefTs == ReplySegOfCall[PB_REPLY_ORIGIN_TS].v
SummaryOfCall == Get(ReplySegOfCall, PB_REPLY_ORIGIN_SUMMARY_TEXT, PyBytes(<<>>))

\* the fragment of the reply of the last call, were `quoted` the quoted text
ReplyShowing(quoted) == ReplyFragment(ReplySegOfCall, PyStr(quoted), config.is_timeline)

\* the text between ": " and the closing "]" of a reply fragment
QuotedIn(fragment) ==
    LET colon == Min({k \in 1..Len(fragment) : fragment[k] = ":"})
    IN  SubSeq(fragment, colon + 2, Len(fragment) - 1)

\* sub occurs in s as a contiguous run
HasSub(s, sub) ==
    \E k \in 0..(Len(s) - Len(sub)) : SubSeq(s, k + 1, k + Len(sub)) = sub

\* C1: when a reply references timestamp T and MESSAGE_CONTENT_CACHE holds
\* an entry for T, the fragment rendered for the reply quotes the cached
\* text, and not the embedded summary when the two differ.
C1_QuotePriority ==
    (ReplyCall /\ RefTs \in DOMAIN call.mcc) =>
        /\ call.result = PyList(<<ReplyShowing(call.mcc[RefTs])>>)
        /\ QuotedIn(call.result.v[1].v) = call.mcc[RefTs]
        /\ (SummaryOfCall.t = "bytes" /\ SummaryOfCall.v # call.mcc[RefTs])
              => QuotedIn(call.result.v[1].v) # SummaryOfCall.v

\* a reply with a summary was rendered while the cache held another text
C1_Witness ==
    /\ ReplyCall /\ RefTs \in DOMAIN call.mcc
    /\ SummaryOfCall = PyBytes(SUMMARY)
    /\ call.mcc[RefTs] # SUMMARY
    /\ HasSub(call.result.v[1].v, call.mcc[RefTs])

\* the four levels of the Quote Resolver, the first that applies
QuoteLevel ==
    IF RefTs \in DOMAIN call.mcc THEN 1
    ELSE IF RefTs \in DOMAIN call.sc THEN 2
    ELSE IF SummaryOfCall.v # <<>> THEN 3
    ELSE 4

\* C2: the quoted text of a reply to T is the MESSAGE_CONTENT_CACHE entry
\* for T if present, otherwise the SALVAGE_CACHE entry for T if present
\* (its newlines replaced), otherwise the embedded summary, otherwise, the
\* summary being empty, the rendering of the inlined original objects.
C2_FourLevelFallback ==
    ReplyCall =>
        QuotedIn(call.result.v[1].v) =
            CASE QuoteLevel = 1 -> call.mcc[RefTs]
              [] QuoteLevel = 2 -> _sanitize_newlines(call.sc[RefTs])
              [] QuoteLevel = 3 -> _sanitize_newlines(DecodeIgnore(SummaryOfCall.v))
              [] QuoteLevel = 4 ->
                    InlinedOrigin(ReplySegOfCall, config.export_config).v

\* both caches held T with different texts, and the reply carried a summary
\* field of its own
C2_Witness ==
    /\ ReplyCall
    /\ RefTs \in DOMAIN call.mcc /\ RefTs \in DOMAIN call.sc
    /\ call.mcc[RefTs] # _sanitize_newlines(call.sc[RefTs])
    /\ PB_REPLY_ORIGIN_SUMMARY_TEXT \in DOMAIN ReplySegOfCall

\* each lower level is reached
C2_Level2 == ReplyCall /\ QuoteLevel = 2 /\ SummaryOfCall = PyBytes(SUMMARY)
C2_Level3 == ReplyCall /\ QuoteLevel = 3
C2_Level4 == ReplyCall /\ QuoteLevel = 4 /\ QuotedIn(call.result.v[1].v) = <<"q">>

---------------------------------------------------------------------------
(* The except branch *)

\* the last call took the except branch
FailedCall == Called /\ call.failed

\* what each strategy makes of the bytes of the last call
BracketOfCall == BracketSearch(DecodeIgnore(call.content.raw))
RunOfCall == _extract_readable_text(call.content.raw)
Base64OfCall == B64_PREFIX \o b64encode(call.content.raw)

\* C3: for every non-empty byte sequence on which structured decoding
\* fails, the call returns a non-empty list whose fragments are non-empty
\* strings, never None or [].
C3_SalvageGuarantee ==
    FailedCall =>
        /\ call.content.raw # <<>>
        /\ call.result.t = "list" /\ call.result.v # <<>>
        /\ \A k \in DOMAIN call.result.v :
               call.result.v[k].t = "str" /\ call.result.v[k].v # <<>>

\* the decoder rejected a blob in which nothing is readable: its longest
\* printable run is blank
C3_Witness ==
    /\ FailedCall /\ call.content.pb = EXC
    /\ BracketOfCall = None /\ RunOfCall = PyStr(<<>>)
    /\ call.result = PyList(<<PyStr(Base64OfCall)>>)

\* C4: after a call that took the except branch for a message of timestamp
\* T, SALVAGE_CACHE has key T and its value is the salvage result: the
\* bracket token, the stripped longest printable run, or the base64
\* placeholder, as salvaged (the returned fragment is that value with its
\* newlines replaced).
C4_SalvageStored ==
    FailedCall =>
        /\ call.timestamp \in DOMAIN SALVAGE_CACHE
        /\ SALVAGE_CACHE[call.timestamp]
              \in {x.v : x \in {BracketOfCall, RunOfCall} \ {None}} \cup {Base64OfCall}
        /\ call.result =
              PyList(<<PyStr(_sanitize_newlines(SALVAGE_CACHE[call.timestamp]))>>)

\* the salvaged text holds a newline, so the stored value and the returned
\* fragment differ
C4_Witness ==
    /\ FailedCall
    /\ call.timestamp \in DOMAIN SALVAGE_CACHE
    /\ \E k \in DOMAIN SALVAGE_CACHE[call.timestamp] :
           SALVAGE_CACHE[call.timestamp][k] = LF
    /\ call.result # PyList(<<PyStr(SALVAGE_CACHE[call.timestamp])>>)

\* the base64 placeholder was stored
C4_Base64Stored ==
    FailedCall /\ SALVAGE_CACHE[call.timestamp] = Base64OfCall

\* some run of the printable pattern in the bytes is not blank
NonBlankRun(raw) ==
    \E r \in Runs(DecodeReplace(raw)) :
        Strip(SubSeq(DecodeReplace(raw), r[1], r[2])) # <<>>

\* the first of the longest runs of the printable pattern is not blank
LongestRunNonBlank(raw) ==
    /\ Runs(DecodeReplace(raw)) # {}
    /\ Strip(LongestRun(DecodeReplace(raw))) # <<>>

\* C5 as stated: the bracket token is used whenever it matches, the longest
\* run only when no token matched, and the base64 placeholder only when
\* there is no bracket token and no non-blank run of the printable pattern.
C5_AsStated ==
    FailedCall =>
        /\ BracketOfCall # None => SALVAGE_CACHE[call.timestamp] = BracketOfCall.v
        /\ SALVAGE_CACHE[call.timestamp] = Base64OfCall =>
              BracketOfCall = None /\ ~NonBlankRun(call.content.raw)

\* C5: the bracket token is used whenever it matches; otherwise the first
\* of the longest runs of the printable pattern, stripped, is used when it
\* is not blank; otherwise the base64 placeholder is emitted, also when a
\* shorter run is not blank.
C5_StrategyOrder ==
    FailedCall =>
        SALVAGE_CACHE[call.timestamp] =
            IF BracketOfCall # None THEN BracketOfCall.v
            ELSE IF LongestRunNonBlank(call.content.raw)
            THEN Strip(LongestRun(DecodeReplace(call.content.raw)))
            ELSE Base64OfCall

\* the base64 placeholder was emitted for bytes that hold a non-blank run
C5_Witness ==
    /\ FailedCall
    /\ BracketOfCall = None /\ NonBlankRun(call.content.raw)
    /\ call.result = PyList(<<PyStr(Base64OfCall)>>)

\* the bracket token won over a longer printable run around it
C5_BracketOverRun ==
    /\ FailedCall /\ BracketOfCall # None
    /\ Len(RunOfCall.v) > Len(BracketOfCall.v)
    /\ SALVAGE_CACHE[call.timestamp] = BracketOfCall.v

\* no token within BRACKET_MAX characters: the run is used
C5_RunUsed ==
    /\ FailedCall /\ BracketOfCall = None
    /\ call.content.raw = Bracketed(BRACKET_MAX + 1)
    /\ SALVAGE_CACHE[call.timestamp] = call.content.raw

---------------------------------------------------------------------------
(* The loop over the segments *)

\* the decoder accepted the blob of the last call and found a container
StructuredCall ==
    /\ Called /\ call.content.raw # <<>> /\ call.content.pb # EXC
    /\ PB_MSG_CONTAINER \in DOMAIN call.content.pb.v

\* C6 as stated: the except branch is entered only when the decoder throws
\* on the whole blob; a field of an unexpected shape inside one segment
\* does not divert the message to it.
C6_AsStated == FailedCall => call.content.pb = EXC

\* a segment of the container whose type MSG_TYPE_MAP does not hold (the
\* type field absent, or a hashable value that is no key of the map)
UnknownTypeSeg(x) ==
    /\ x.t = "dict"
    /\ ~Unhashable(Get(x.v, PB_MSG_TYPE, None))
    /\ ~InIntMap(Get(x.v, PB_MSG_TYPE, None), MSG_TYPE_MAP)

HasUnknownSeg == \E k \in DOMAIN CallSegments : UnknownTypeSeg(CallSegments[k])

\* the blob of the last call with the segments of unknown type taken out
WithoutUnknown ==
    Blob(call.content.raw,
         (PB_MSG_CONTAINER :>
            PyList(SelectSeq(CallSegments, LAMBDA x : ~UnknownTypeSeg(x)))))

\* a fragment "[<label>]"
IsPlaceholder(p) ==
    p.t = "str" /\ Len(p.v) = 3 /\ p.v[1] = "[" /\ p.v[3] = "]"

C7_OnlyUnknown ==
    /\ StructuredCall /\ HasUnknownSeg
    /\ Len(CallSegments) = 1
    /\ call.result = None

\* C8 as stated: no row raises out of a writer's per-row processing, so
\* every writer reaches the end of its rows.
C8_AsStated == pc # "raised"

\* C9: the call returns None or a non-empty list, never an empty list;
\* None only for an empty blob or when no segment yielded a fragment; and
\* a call that took the except branch returns a list of one fragment.
C9_NoneOrNonEmpty ==
    Called =>
        /\ call.result = None \/ (call.result.t = "list" /\ call.result.v # <<>>)
        /\ call.result = None =>
              /\ ~call.failed
              /\ \/ call.content.raw = <<>>
                 \/ /\ StructuredCall
                    /\ \A k \in DOMAIN CallSegments :
                           ~Truthy(SegmentPart(CallSegments[k], call.mcc, call.sc,
                                               config.export_config,
                                               config.is_timeline))
        /\ call.failed => call.result.t = "list" /\ Len(call.result.v) = 1

\* a decodable, non-empty blob rendered nothing
C9_Witness ==
    /\ StructuredCall /\ CallSegments # <<>>
    /\ call.result = None

\* an empty blob rendered nothing
C9_EmptyBlob == Called /\ call.content.raw = <<>> /\ call.result = None

\* the rows of the pass the last call belongs to, up to the row before it
EarlierInPass ==
    SubSeq(IF call.phase = "prefilter" THEN rows ELSE valid_rows, 1, call.index - 1)

\* what the reply of the last call quotes from itself: its summary, or its
\* inlined original when the summary is empty
OwnQuote ==
    IF SummaryOfCall.t = "bytes" /\ SummaryOfCall.v # <<>>
    THEN _sanitize_newlines(DecodeIgnore(SummaryOfCall.v))
    ELSE InlinedOrigin(ReplySegOfCall, config.export_config).v

\* C10 as stated: within one pass over the rows, a (well-formed) reply
\* processed before any message of the referenced timestamp renders its own
\* summary or inlined original, never a text of a cache.
C10_AsStated ==
    (/\ ReplyCall /\ SummaryOfCall.t = "bytes"
     /\ \A k \in DOMAIN EarlierInPass : EarlierInPass[k].ts # RefTs)
        => QuotedIn(call.result.v[1].v) = OwnQuote

---------------------------------------------------------------------------
(* The two caches over a job *)

\* C11: no step removes a key from MESSAGE_CONTENT_CACHE or SALVAGE_CACHE:
\* the key sets only grow (a value may be overwritten).
C11_CachesOnlyGrow ==
    [][/\ DOMAIN SALVAGE_CACHE \subseteq DOMAIN SALVAGE_CACHE'
       /\ DOMAIN MESSAGE_CONTENT_CACHE \subseteq DOMAIN MESSAGE_CONTENT_CACHE']_vars

\* the writer stored a text under a timestamp that already held another
\* text (the key stayed, the value changed), and SALVAGE_CACHE holds a key
C11_Witness ==
    /\ Called /\ call.phase = "write"
    /\ call.timestamp \in DOMAIN call.mcc
    /\ MESSAGE_CONTENT_CACHE[call.timestamp] # call.mcc[call.timestamp]
    /\ DOMAIN SALVAGE_CACHE # {}

\* the writer reached a reply that follows two different non-reply messages
\* of the timestamp it references
CollisionCall ==
    /\ rows \in CollisionRows /\ valid_rows = rows
    /\ Called /\ call.phase = "write" /\ call.index = 3

\* the text the writer of the job's format stores for a non-reply blob
StoredText(content) ==
    LET parts == decode_message_content(content, EmptyCache, EmptyCache,
                                        config.export_config, config.is_timeline).result.v
    IN  CASE config.export_format = "txt" -> TxtText(parts)
          [] config.export_format = "md" -> MdMainText(parts)
          [] config.export_format = "html" -> HtmlMainText(parts)

\* C12: when two different non-reply messages of one timestamp T were
\* processed, the second overwrote the first in MESSAGE_CONTENT_CACHE (and
\* in SALVAGE_CACHE when both were salvaged), and a later reply to T renders,
\* without error, the text of the second, not that of the first.
C12_TimestampCollision ==
    CollisionCall =>
        /\ ~call.failed
        /\ call.mcc[RefTs] = StoredText(rows[2].content)
        /\ QuotedIn(call.result.v[1].v) = StoredText(rows[2].content)
        /\ StoredText(rows[1].content) # StoredText(rows[2].content)
              => QuotedIn(call.result.v[1].v) # StoredText(rows[1].content)
        /\ (rows[1].content.pb = EXC /\ rows[2].content.pb = EXC)
              => call.sc[RefTs] = SalvageChain(rows[2].content.raw).stored

\* the reply shows the second text where the first was another, both
\* messages having been salvaged
C12_Witness ==
    /\ CollisionCall
    /\ rows[1].content.pb = EXC /\ rows[2].content.pb = EXC
    /\ StoredText(rows[1].content) # StoredText(rows[2].content)
    /\ QuotedIn(call.result.v[1].v) = StoredText(rows[2].content)

\* the same for two messages the decoder accepted
C12_Decoded ==
    /\ CollisionCall
    /\ rows[1].content.pb # EXC /\ rows[2].content.pb # EXC
    /\ StoredText(rows[1].content) # StoredText(rows[2].content)
    /\ QuotedIn(call.result.v[1].v) = StoredText(rows[2].content)

---------------------------------------------------------------------------
(* Newlines *)

\* text.replace("[%\\n%]", "\n"): every sentinel put back to a newline
RECURSIVE Restore(_)
Restore(s) ==
    IF s = <<>> THEN <<>>
    ELSE IF Len(s) >= Len(SENTINEL) /\ SubSeq(s, 1, Len(SENTINEL)) = SENTINEL
         THEN <<LF>> \o Restore(SubSeq(s, Len(SENTINEL) + 1, Len(s)))
         ELSE <<Head(s)>> \o Restore(Tail(s))

\* the last call rendered a message of one text segment
TextCall ==
    /\ Called /\ ~call.failed /\ call.result # None
    /\ Len(CallSegments) = 1 /\ CallSegments[1].t = "dict"
    /\ EqInt(Get(CallSegments[1].v, PB_MSG_TYPE, None), 1)
    /\ Get(CallSegments[1].v, PB_TEXT_CONTENT, None).t = "bytes"

\* the text of that segment, decoded
TextOfCall == DecodeIgnore(CallSegments[1].v[PB_TEXT_CONTENT].v)

\* C13 as stated: for every text content, the fragment rendered for it, with
\* every sentinel put back to a newline, is the text content again.
C13_AsStated ==
    TextCall =>
        /\ Len(call.result.v) = 1 /\ call.result.v[1].t = "str"
        /\ Restore(call.result.v[1].v) = TextOfCall

\* C14 as stated: no string fragment decode_message_content returns, for any
\* segment type, holds a raw newline.
C14_AsStated ==
    (Called /\ call.result # None) =>
        \A k \in DOMAIN call.result.v :
            call.result.v[k].t = "str"
                => \A j \in DOMAIN call.result.v[k].v : call.result.v[k].v[j] # LF

---------------------------------------------------------------------------
(* The key mapping of the structure export *)

Exported == raw_decoded # None

\* the keys of a tree, at every level
RECURSIVE KeysOf(_)
KeysOf(node) ==
    IF node.t = "list" THEN UNION {KeysOf(node.v[i]) : i \in DOMAIN node.v}
    ELSE IF node.t = "dict"
    THEN DOMAIN node.v \cup UNION {KeysOf(node.v[key]) : key \in DOMAIN node.v}
    ELSE {}

\* C15 as stated: mapping the mapped tree again gives the mapped tree; the
\* keys already renamed pass through the second application unchanged.
C15_AsStated ==
    Exported => map_protobuf_keys(decoded_struct) = decoded_struct

\* C15, amended: mapping the mapped tree again gives the mapped tree exactly
\* when each of its keys, at every level, is five characters long; a key of
\* another length (a semantic name such as MSG_TYPE) is dropped by the second
\* application.
C15_IdempotentOnFiveCharacterKeys ==
    Exported =>
        /\ (map_protobuf_keys(decoded_struct) = decoded_struct
              <=> \A key \in KeysOf(decoded_struct) : Len(key) = 5)
        /\ \A key \in KeysOf(map_protobuf_keys(decoded_struct)) : Len(key) = 5
        /\ map_protobuf_keys(map_protobuf_keys(decoded_struct))
              = map_protobuf_keys(decoded_struct)

\* a mapped tree of unrenamed keys, at two levels, that the second
\* application leaves as it is
C15_Witness ==
    /\ Exported /\ decoded_struct.t = "dict"
    /\ \E key \in DOMAIN decoded_struct.v : KeysOf(decoded_struct.v[key]) # {}
    /\ map_protobuf_keys(decoded_struct) = decoded_struct

\* a renamed key the second application drops
C15_RenamedDropped ==
    /\ Exported /\ decoded_struct.t = "dict"
    /\ "MSG_TYPE" \in DOMAIN decoded_struct.v
    /\ "MSG_TYPE" \notin KeysOf(map_protobuf_keys(decoded_struct))

\* C16: the mapped tree holds no key of the ignore list, at any nesting
\* level, mappings inside lists included.
C16_NoIgnoredKey ==
    Exported => KeysOf(decoded_struct) \cap IGNORE_IDS = {}

\* the decoded tree held an ignored key in a mapping inside a list, and the
\* mapped tree holds that list and that mapping
C16_Witness ==
    /\ Exported /\ raw_decoded.t = "dict"
    /\ \E key \in DOMAIN raw_decoded.v :
          /\ raw_decoded.v[key].t = "list"
          /\ KeysOf(raw_decoded.v[key]) \cap IGNORE_IDS # {}
          /\ key \in DOMAIN PROTO_FIELD_MAP
          /\ decoded_struct.v[PROTO_FIELD_MAP[key]].t = "list"
          /\ decoded_struct.v[PROTO_FIELD_MAP[key]].v[1].t = "dict"

\* the mapping of one tree to another leaves every key the rename table
\* does not hold under its own name, with the mapped value, and leaves a
\* type the type table does not hold as the integer; `all` is whether the
\* keys the filter drops are counted too
RECURSIVE Degrades(_, _, _)
Degrades(in, out, all) ==
    IF in.t = "list"
    THEN /\ out.t = "list" /\ DOMAIN out.v = DOMAIN in.v
         /\ \A i \in DOMAIN in.v : Degrades(in.v[i], out.v[i], all)
    ELSE IF in.t = "dict"
    THEN /\ out.t = "dict"
         /\ \A key \in DOMAIN in.v \ DOMAIN PROTO_FIELD_MAP :
               (all \/ (Len(key) = 5 /\ key \notin IGNORE_IDS)) =>
                   /\ key \in DOMAIN out.v
                   /\ out.v[key] = map_protobuf_keys(in.v[key])
                   /\ Degrades(in.v[key], out.v[key], all)
         /\ (/\ PB_MSG_TYPE \in DOMAIN in.v
             /\ in.v[PB_MSG_TYPE].t = "int"
             /\ in.v[PB_MSG_TYPE].v \notin DOMAIN PROTO_MSG_TYPE_MAP) =>
                 /\ "MSG_TYPE" \in DOMAIN out.v
                 /\ out.v["MSG_TYPE"] = in.v[PB_MSG_TYPE]
    ELSE out = in

\* C17 as stated: every key of an input mapping that the rename table does
\* not hold appears in the output under its own identifier, with its mapped
\* value; a type value the type table does not hold stays the integer.
C17_AsStated == Exported => Degrades(raw_decoded, decoded_struct, TRUE)

\* C17, amended: every key the rename table does not hold and the filter
\* keeps (five characters, not on the ignore list) appears in the output
\* under its own identifier, with its mapped value; a type value the type
\* table does not hold stays the integer.
C17_KeptKeysUnchanged == Exported => Degrades(raw_decoded, decoded_struct, FALSE)

\* an identifier no table holds, kept with a nested mapping as its value
C17_Witness ==
    /\ Exported /\ raw_decoded.t = "dict"
    /\ "49999" \in DOMAIN raw_decoded.v
    /\ raw_decoded.v["49999"].t = "dict"
    /\ "49999" \in DOMAIN decoded_struct.v
    /\ decoded_struct.v["49999"].t = "dict"

\* a type the type table does not hold, left as the integer
C17_UnknownType ==
    /\ Exported /\ raw_decoded.t = "dict"
    /\ PB_MSG_TYPE \in DOMAIN raw_decoded.v
    /\ raw_decoded.v[PB_MSG_TYPE] = PyInt(99)
    /\ decoded_struct.v["MSG_TYPE"] = PyInt(99)

---------------------------------------------------------------------------
(* Repeated fields delivered bare *)

\* the blob of the last call with a bare container wrapped in a list
WrappedContainer ==
    [call.content EXCEPT !.pb.v[PB_MSG_CONTAINER] = PyList(<<@>>)]

\* the blob of the last call, one reply, with a bare inlined original
\* wrapped in a list
WrappedOrigin ==
    Blob(call.content.raw,
         (PB_MSG_CONTAINER :>
            PyList(<<[CallSegments[1] EXCEPT !.v[PB_REPLY_ORIGIN_OBJ] = PyList(<<@>>)]>>)))

BareContainer ==
    /\ StructuredCall
    /\ call.content.pb.v[PB_MSG_CONTAINER].t # "list"

BareOrigin ==
    /\ StructuredCall /\ Len(CallSegments) = 1 /\ IsReplySeg(CallSegments[1])
    /\ PB_REPLY_ORIGIN_OBJ \in DOMAIN CallSegments[1].v
    /\ CallSegments[1].v[PB_REPLY_ORIGIN_OBJ].t # "list"

ResultOf(content) ==
    decode_message_content(content, call.mcc, call.sc, config.export_config,
                           config.is_timeline).result

\* the field of the decoded tree that holds the message container
ContainerWalked ==
    /\ Exported /\ raw_decoded.t = "dict"
    /\ PB_MSG_CONTAINER \in DOMAIN raw_decoded.v

C18_BareLeftBare ==
    /\ ContainerWalked
    /\ msg_blob.msg[PB_MSG_CONTAINER].t = "dict"
    /\ raw_decoded.v[PB_MSG_CONTAINER].t = "dict"

---------------------------------------------------------------------------
(* Gray tips *)

\* the last call rendered a message of one gray-tip segment
TipCall ==
    /\ Called /\ ~call.failed
    /\ Len(CallSegments) = 1 /\ CallSegments[1].t = "dict"
    /\ EqInt(Get(CallSegments[1].v, PB_MSG_TYPE, None), 8)

TipSeg == CallSegments[1].v

\* a well-formed interactive notice: an XML of two identifiers and a text
WellFormedPoke ==
    /\ PB_GRAYTIP_INTERACTIVE_XML \in DOMAIN TipSeg
    /\ TipSeg[PB_GRAYTIP_INTERACTIVE_XML].t = "bytes"
    /\ Len(FindUids(TipSeg[PB_GRAYTIP_INTERACTIVE_XML])) >= 2
    /\ Len(FindTexts(TipSeg[PB_GRAYTIP_INTERACTIVE_XML])) >= 1

\* a recall notice: a recaller identifier, and no well-formed interactive
\* notice beside it
RecallNotice == PB_RECALLER_UID \in DOMAIN TipSeg /\ ~WellFormedPoke

\* C19: a poke yields a fragment iff show_poke is set, whatever show_recall
\* is; a recall notice yields one iff show_recall is set, whatever show_poke
\* is; any other gray tip yields none under every configuration.
C19_TogglesIndependent ==
    TipCall =>
        /\ WellFormedPoke => (call.result # None <=> config.export_config.show_poke)
        /\ RecallNotice => (call.result # None <=> config.export_config.show_recall)
        /\ (~WellFormedPoke /\ ~RecallNotice) => call.result = None

\* a poke shown while recall notices are switched off
C19_Witness ==
    /\ TipCall /\ WellFormedPoke
    /\ config.export_config.show_poke /\ ~config.export_config.show_recall
    /\ call.result # None /\ call.result.v[1].t = "tip"

\* a recall notice shown while pokes are switched off
C19_RecallShown ==
    /\ TipCall /\ RecallNotice
    /\ ~config.export_config.show_poke /\ config.export_config.show_recall
    /\ call.result # None

\* a recall notice suppressed while pokes are switched on
C19_RecallHidden ==
    /\ TipCall /\ RecallNotice
    /\ config.export_config.show_poke /\ ~config.export_config.show_recall
    /\ call.result = None

\* the recaller identifier of the notice, as text
RecallerUid == TextOr(Get(TipSeg, PB_RECALLER_UID, None), <<>>)

\* the name embedded in the notice, as text (empty when it is missing)
EmbeddedName == TextOr(Get(TipSeg, PB_RECALLER_NAME, None), <<>>)

\* the suffix of the notice, as text (empty when it is missing)
SuffixText == TextOr(Get(TipSeg, PB_RECALL_SUFFIX, None), <<>>)

\* the last call rendered a recall notice with show_recall set
RecallShown ==
    /\ TipCall /\ RecallNotice /\ config.export_config.show_recall

\* the notice of a name and a suffix
Notice(name, suffix) ==
    PyStr(<<"[">> \o name \o <<SPACE, "recalled-a-message">>
          \o (IF suffix # <<>> THEN <<SPACE>> \o suffix ELSE <<>>) \o <<"]">>)

\* C20: the name of a recall notice is the resolver's result for the recaller
\* identifier; the embedded name is used only when the resolver returned the
\* identifier unchanged, and the identifier itself when the embedded name is
\* missing or empty; the suffix is appended only when show_recall_suffix is
\* set and the suffix is not empty.
C20_RecallName ==
    RecallShown =>
        call.result =
            PyList(<<Notice(IF get_display_name(RecallerUid) # RecallerUid
                            THEN get_display_name(RecallerUid)
                            ELSE IF EmbeddedName # <<>> THEN EmbeddedName
                            ELSE RecallerUid,
                            IF config.export_config.show_recall_suffix
                            THEN Replace_LF(SuffixText) ELSE <<>>)>>)

\* the resolver knew the recaller: its name is shown, not the embedded one,
\* and the suffix is appended
C20_Witness ==
    /\ RecallShown /\ RecallerUid = <<"u_A">> /\ EmbeddedName = <<"B", "o", "b">>
    /\ SuffixText = <<"x">>
    /\ call.result = PyList(<<Notice(<<"Alice">>, <<"x">>)>>)

\* the resolver returned the identifier: the embedded name is shown, and the
\* suffix is left out with show_recall_suffix off
C20_EmbeddedName ==
    /\ RecallShown /\ RecallerUid = <<"u_X">> /\ SuffixText = <<"x">>
    /\ ~config.export_config.show_recall_suffix
    /\ call.result = PyList(<<Notice(<<"B", "o", "b">>, <<>>)>>)

\* neither the resolver nor the notice has a name: the identifier is shown
C20_Identifier ==
    /\ RecallShown /\ RecallerUid = <<"u_X">>
    /\ PB_RECALLER_NAME \notin DOMAIN TipSeg
    /\ call.result = PyList(<<Notice(<<"u_X">>, <<>>)>>)

---------------------------------------------------------------------------
(* Cards *)

\* the last call was given a message of one card segment
CardCall ==
    /\ Called /\ call.content.raw # <<>>
    /\ Len(CallSegments) = 1 /\ CallSegments[1].t = "dict"
    /\ EqInt(Get(CallSegments[1].v, PB_MSG_TYPE, None), 10)

CardPayload == Get(CallSegments[1].v, PB_ARK_JSON, None)

\* the renderings of the cards the decoder knows
KnownRendering(f) ==
    \/ /\ Len(f) >= 2 /\ f[1] = "["
       /\ f[2] \in {"location: ", "location", "share", "contact-card", "chat-history"}
    \/ Contains(f, "[QQ-miniapp]")

KnownApps ==
    {PyStr(<<a>>) : a \in {"com.tencent.map", "com.tencent.music.lua",
                           "com.tencent.contact.lua", "com.tencent.miniapp_01",
                           "com.tencent.multimsg"}}

\* C21: a card segment never raises and never diverts the message to the
\* salvage chain: it yields a known rendering, nothing for an absent payload
\* or an application the decoder does not know, or the fixed marker when the
\* payload is no JSON.
C21_CardsNeverRaise ==
    CardCall =>
        /\ ~call.failed
        /\ SALVAGE_CACHE = call.sc
        /\ \/ call.result = None
           \/ call.result = PyList(<<CARD_FAILED>>)
           \/ /\ call.result.t = "list" /\ Len(call.result.v) = 1
              /\ call.result.v[1].t = "str" /\ KnownRendering(call.result.v[1].v)
        /\ ~Truthy(CardPayload) => call.result = None
        /\ (Truthy(CardPayload) /\ JsonLoads(CardPayload) = EXC)
              => call.result = PyList(<<CARD_FAILED>>)
        /\ (/\ Truthy(CardPayload) /\ JsonLoads(CardPayload) # EXC
            /\ JsonLoads(CardPayload).t = "dict"
            /\ Get(JsonLoads(CardPayload).v, "app", None) \notin KnownApps)
              => call.result = None

\* a payload that is no JSON was rendered as the marker by the writer's call
C21_Witness ==
    /\ CardCall /\ call.phase = "write"
    /\ CardPayload = PyJson(EXC)
    /\ call.result = PyList(<<CARD_FAILED>>)

\* a card of a known application whose meta is no object: the marker too
C21_MetaNoObject ==
    /\ CardCall /\ JsonLoads(CardPayload) # EXC /\ JsonLoads(CardPayload).t = "dict"
    /\ Get(JsonLoads(CardPayload).v, "app", None) = PyStr(<<"com.tencent.multimsg">>)
    /\ call.result = PyList(<<CARD_FAILED>>)

\* a card rendered as a chat history
C21_Rendered ==
    /\ CardCall /\ call.result # None
    /\ call.result.v[1].v[2] = "chat-history"

---------------------------------------------------------------------------
(* The order of the fragments *)

\* the fragments of a result
Frags(r) == IF r = None THEN <<>> ELSE r.v

\* what the last call would return for segment k of its container alone
AloneResult(k) ==
    ResultOf(Blob(call.content.raw, (PB_MSG_CONTAINER :> PyList(<<CallSegments[k]>>))))

\* the fragments of the first k segments, each rendered alone, in their order
RECURSIVE InOrder(_)
InOrder(k) == IF k = 0 THEN <<>> ELSE InOrder(k - 1) \o Frags(AloneResult(k))

\* C22: each segment of the container contributes no fragment or one, the
\* fragments are in the order of their segments, and there are never more
\* fragments than segments.
C22_SegmentOrder ==
    StructuredCall =>
        /\ Len(Frags(call.result)) <= Len(CallSegments)
        /\ ~call.failed =>
              /\ \A k \in DOMAIN CallSegments : Len(Frags(AloneResult(k))) <= 1
              /\ Frags(call.result) = InOrder(Len(CallSegments))

\* four segments, the first and the third yielding a fragment each
C22_Witness ==
    /\ StructuredCall /\ ~call.failed /\ Len(CallSegments) = 4
    /\ Len(Frags(call.result)) = 2
    /\ Frags(AloneResult(1)) = <<call.result.v[1]>>
    /\ Frags(AloneResult(3)) = <<call.result.v[2]>>
    /\ call.result.v[1] # call.result.v[2]

---------------------------------------------------------------------------
(* Images *)

\* the last call rendered a message of one image segment that is neither an
\* animated sticker nor a super emoji
ImageCall ==
    /\ Called /\ call.content.raw # <<>>
    /\ Len(CallSegments) = 1 /\ CallSegments[1].t = "dict"
    /\ EqInt(Get(CallSegments[1].v, PB_MSG_TYPE, None), 2)
    /\ \A n \in {1, 2, 7} : ~EqInt(Get(CallSegments[1].v, PB_MSG_SUBTYPE, None), n)

ImageSeg == CallSegments[1].v

\* a field of the image is present and not zero
NonZero(key) == key \in DOMAIN ImageSeg /\ ImageSeg[key].t = "int" /\ ImageSeg[key].v # 0

\* C23: an image that is no animated sticker and no super emoji renders as its
\* tag, the flash tag iff the flash flag is 1, followed by the dimensions iff
\* show_media_info is set and the width and the height are both present and
\* not zero; a flash image of 100 by 200 renders as "[flash-photo 100x200]".
C23_ImageRendering ==
    ImageCall =>
        /\ ~call.failed
        /\ call.result =
              PyList(<<PyStr(
                  <<"[", IF Get(ImageSeg, PB_IMAGE_IS_FLASH, None) = PyInt(1)
                         THEN "flash-photo" ELSE "image">>
                  \o (IF /\ config.export_config.show_media_info
                          /\ NonZero(PB_IMG_WIDTH) /\ NonZero(PB_IMG_HEIGHT)
                       THEN <<SPACE, ToString(ImageSeg[PB_IMG_WIDTH].v), "x",
                              ToString(ImageSeg[PB_IMG_HEIGHT].v)>>
                       ELSE <<>>)
                  \o <<"]">>)>>)

\* the flash image of 100 by 200 under show_media_info
C23_Witness ==
    /\ ImageCall /\ config.export_config.show_media_info
    /\ Get(ImageSeg, PB_IMAGE_IS_FLASH, None) = PyInt(1)
    /\ call.result = PyList(<<PyStr(<<"[", "flash-photo", SPACE, "100", "x", "200", "]">>)>>)

\* a width without a height under show_media_info: the bare tag
C23_WidthOnly ==
    /\ ImageCall /\ config.export_config.show_media_info
    /\ NonZero(PB_IMG_WIDTH) /\ ~NonZero(PB_IMG_HEIGHT)
    /\ call.result = PyList(<<PyStr(<<"[", "image", "]">>)>>)

---------------------------------------------------------------------------
(* What a call writes *)

\* C24: a call of decode_message_content never writes MESSAGE_CONTENT_CACHE,
\* and writes SALVAGE_CACHE only on the failure path and only at the key of
\* the message's own timestamp; a call with an empty blob, or one whose
\* structured decoding succeeds, leaves both caches as they are.
\* MESSAGE_CONTENT_CACHE is written only by the writers, for a row that has
\* fragments, at the key of the row's timestamp.
C24_FrameCondition ==
    [][IF call' = call
       THEN /\ SALVAGE_CACHE' = SALVAGE_CACHE
            /\ MESSAGE_CONTENT_CACHE' = MESSAGE_CONTENT_CACHE
       ELSE /\ \A k \in DOMAIN SALVAGE_CACHE' \ {call'.timestamp} :
                  k \in DOMAIN SALVAGE_CACHE /\ SALVAGE_CACHE'[k] = SALVAGE_CACHE[k]
            /\ DOMAIN SALVAGE_CACHE \subseteq DOMAIN SALVAGE_CACHE'
            /\ SALVAGE_CACHE' # SALVAGE_CACHE => call'.failed
            /\ (call'.content.raw = <<>> \/ ~call'.failed)
                  => SALVAGE_CACHE' = SALVAGE_CACHE
            /\ call'.phase = "prefilter"
                  => MESSAGE_CONTENT_CACHE' = MESSAGE_CONTENT_CACHE
            /\ \A k \in DOMAIN MESSAGE_CONTENT_CACHE' \ {call'.timestamp} :
                  /\ k \in DOMAIN MESSAGE_CONTENT_CACHE
                  /\ MESSAGE_CONTENT_CACHE'[k] = MESSAGE_CONTENT_CACHE[k]
            /\ MESSAGE_CONTENT_CACHE' # MESSAGE_CONTENT_CACHE
                  => call'.phase = "write" /\ Truthy(call'.result)
      ]_vars

\* a failing call of the pre-filter pass stored its salvage at its own
\* timestamp beside the entry of another, and MESSAGE_CONTENT_CACHE is empty
C24_Witness ==
    /\ Called /\ call.phase = "prefilter" /\ call.failed
    /\ DOMAIN call.sc # {} /\ call.timestamp \notin DOMAIN call.sc
    /\ DOMAIN SALVAGE_CACHE = DOMAIN call.sc \cup {call.timestamp}
    /\ MESSAGE_CONTENT_CACHE = EmptyCache

\* a successful call of the writer pass: SALVAGE_CACHE as it was, the
\* writer's text in MESSAGE_CONTENT_CACHE
C24_WriterStored ==
    /\ Called /\ call.phase = "write" /\ ~call.failed
    /\ SALVAGE_CACHE = call.sc /\ SALVAGE_CACHE # EmptyCache
    /\ call.timestamp \in DOMAIN MESSAGE_CONTENT_CACHE
    /\ call.timestamp \notin DOMAIN call.mcc

---------------------------------------------------------------------------
(* Replies are not cached *)

\* the fragments of a blob, decoded with both caches empty
PartsOf(content) ==
    decode_message_content(content, EmptyCache, EmptyCache,
                           config.export_config, config.is_timeline).result

\* the blob renders fragments of which the first is a quoted reply
RendersReply(content) == Truthy(PartsOf(content)) /\ IsReply(PartsOf(content).v)

\* the blob renders fragments of which the first is no quoted reply
RendersOther(content) == Truthy(PartsOf(content)) /\ ~IsReply(PartsOf(content).v)

\* every entry of MESSAGE_CONTENT_CACHE is the text the writer makes of a
\* row of that timestamp whose first fragment is no quoted reply
NoReplyCached ==
    \A T \in DOMAIN MESSAGE_CONTENT_CACHE :
        \E k \in DOMAIN rows :
            /\ rows[k].ts = T /\ RendersOther(rows[k].content)
            /\ MESSAGE_CONTENT_CACHE[T] = StoredText(rows[k].content)

\* the last call rendered a reply to a timestamp at which the job has a reply
ReplyToReply ==
    /\ ReplyCall
    /\ \E k \in DOMAIN rows : rows[k].ts = RefTs /\ RendersReply(rows[k].content)

BeginsWithReplyPrefix(s) ==
    Len(s) >= Len(REPLY_PREFIX) /\ SubSeq(s, 1, Len(REPLY_PREFIX)) = REPLY_PREFIX

\* the texts the cache entries of the referenced timestamp and the embedded
\* summary offer to the last call
CachedOrSummary ==
    (IF RefTs \in DOMAIN call.mcc THEN {call.mcc[RefTs]} ELSE {})
    \cup (IF RefTs \in DOMAIN call.sc THEN {_sanitize_newlines(call.sc[RefTs])} ELSE {})
    \cup (IF SummaryOfCall.t = "bytes" THEN {_sanitize_newlines(SummaryOfCall.v)} ELSE {})

\* C25 as stated: no writer stores in MESSAGE_CONTENT_CACHE a message whose
\* first fragment is a quoted reply, and a reply to a reply quotes an older
\* cache entry of that timestamp, the SALVAGE_CACHE entry or the embedded
\* summary, and nothing else.
C25_AsStated ==
    /\ NoReplyCached
    /\ ReplyToReply =>
          /\ ~BeginsWithReplyPrefix(QuotedIn(call.result.v[1].v))
          /\ QuotedIn(call.result.v[1].v) \in CachedOrSummary

\* C25: no writer stores in MESSAGE_CONTENT_CACHE a message whose first
\* fragment is a quoted reply; a reply to a reply therefore never quotes the
\* rendered reply: it quotes an older cache entry of that timestamp, the
\* SALVAGE_CACHE entry, the embedded summary or, the summary being empty,
\* the rendering of the inlined original.
C25_RepliesNotCached ==
    /\ NoReplyCached
    /\ ReplyToReply =>
          /\ ~BeginsWithReplyPrefix(QuotedIn(call.result.v[1].v))
          /\ QuotedIn(call.result.v[1].v) \in
                CachedOrSummary
                \cup (IF SummaryOfCall = PyBytes(<<>>)
                      THEN {InlinedOrigin(ReplySegOfCall, config.export_config).v}
                      ELSE {})

\* the writer met a reply to the timestamp of an earlier reply, which it had
\* written and not stored: the reply quotes its summary
C25_Witness ==
    /\ ReplyToReply /\ call.phase = "write" /\ call.index = 2
    /\ valid_rows[1].ts = RefTs /\ RendersReply(valid_rows[1].content)
    /\ RefTs \notin DOMAIN MESSAGE_CONTENT_CACHE
    /\ QuotedIn(call.result.v[1].v) = SUMMARY

\* the reply quotes the older entry of a message that shares the timestamp
\* of the reply it answers
C25_OlderEntry ==
    /\ ReplyToReply /\ call.phase = "write" /\ call.index = 3
    /\ rows \in QuoteChainRows /\ valid_rows = rows
    /\ QuotedIn(call.result.v[1].v) = StoredText(rows[1].content)

\* the reply to a reply quotes the inlined original
C25_Inlined ==
    /\ ReplyToReply /\ call.phase = "write"
    /\ RefTs \notin DOMAIN call.mcc \cup DOMAIN call.sc
    /\ QuotedIn(call.result.v[1].v) = <<"q">>

---------------------------------------------------------------------------
(* An empty cache entry *)

\* the last call was the txt writer's, on a message whose only fragment is
\* an interactive tip
TxtTipOnly ==
    /\ Called /\ call.phase = "write" /\ config.export_format = "txt"
    /\ Truthy(call.result) /\ Len(call.result.v) = 1 /\ call.result.v[1].t = "tip"

\* C26: the Quote Resolver selects by the presence of the key, not by the
\* content: _write_txt stores the empty string for a message that is only an
\* interactive tip, and when MESSAGE_CONTENT_CACHE holds the empty string
\* for T a reply to T quotes the empty text, whatever SALVAGE_CACHE holds
\* for T and whatever the reply's summary is.
C26_KeyPresence ==
    /\ TxtTipOnly => MESSAGE_CONTENT_CACHE[call.timestamp] = <<>>
    /\ (ReplyCall /\ RefTs \in DOMAIN call.mcc /\ call.mcc[RefTs] = <<>>) =>
          /\ call.result = PyList(<<ReplyShowing(<<>>)>>)
          /\ QuotedIn(call.result.v[1].v) = <<>>

\* a reply with a summary, to a timestamp of which SALVAGE_CACHE holds a
\* text and MESSAGE_CONTENT_CACHE the empty string the txt writer stored for
\* a poke: the quoted text is empty
C26_Witness ==
    /\ ReplyCall /\ call.phase = "write" /\ config.export_format = "txt"
    /\ RefTs \in DOMAIN call.mcc /\ call.mcc[RefTs] = <<>>
    /\ RefTs \in DOMAIN call.sc /\ call.sc[RefTs] # <<>>
    /\ SummaryOfCall = PyBytes(SUMMARY)
    /\ \E k \in DOMAIN rows : rows[k].ts = RefTs /\ rows[k].content = One(PokeSeg)
    /\ QuotedIn(call.result.v[1].v) = <<>>

---------------------------------------------------------------------------
(* The three writers *)

\* the writer's last call obtained fragments of which the first is no
\* quoted reply: the writer stores their text
StoringCall ==
    /\ Called /\ call.phase = "write" /\ pc # "raised"
    /\ Truthy(call.result) /\ ~IsReply(call.result.v)

\* C27 as stated: of the fragments of a message that is no reply, _write_txt,
\* _write_md and _write_html make the same text for MESSAGE_CONTENT_CACHE,
\* so that the cache a later reply reads is the same in the three formats.
C27_AsStated ==
    StoringCall =>
        /\ TxtText(call.result.v) = MdMainText(call.result.v)
        /\ MdMainText(call.result.v) = HtmlMainText(call.result.v)
        /\ MESSAGE_CONTENT_CACHE[call.timestamp] = TxtText(call.result.v)

\* a reply to a poke quotes the tip's text, which _write_md stored and for
\* which _write_txt stores the empty string
C27_PokeQuoted ==
    /\ ReplyCall /\ call.phase = "write" /\ config.export_format = "md"
    /\ \E k \in DOMAIN rows :
          /\ rows[k].ts = RefTs /\ rows[k].content = One(PokeSeg)
          /\ QuotedIn(call.result.v[1].v) = MdMainText(PartsOf(rows[k].content).v)
          /\ TxtText(PartsOf(rows[k].content).v) = <<>>
          /\ MdMainText(PartsOf(rows[k].content).v) # <<>>

---------------------------------------------------------------------------
(* The pre-filter and the writer agree *)

\* C28: whether a call returns an empty result does not depend on the two
\* caches (it is what the call returns with both caches empty); hence the
\* writer obtains fragments for every row the pre-filter kept and skips
\* none, and the count that process_and_write returns, also the len(rows)
\* of _write_html, is the number of messages written.
C28_FilterAgreesWithWriter ==
    /\ Called => (Truthy(call.result) <=> Truthy(PartsOf(call.content)))
    /\ (Called /\ call.phase = "write") => Truthy(call.result)
    /\ \A k \in DOMAIN valid_rows : Truthy(PartsOf(valid_rows[k].content))
    /\ (pc = "prefilter" /\ idx > Len(rows)) =>
          \A k \in DOMAIN rows :
              Truthy(PartsOf(rows[k].content))
                  => \E j \in DOMAIN valid_rows : valid_rows[j] = rows[k]
    /\ pc = "write" => count = idx - 1
    /\ pc = "done" => count = Len(valid_rows)

\* a job of three rows written: the last is a reply that met in the writer
\* pass a cache entry made after the pre-filter saw it, and the count is three
C28_Witness ==
    /\ pc = "done" /\ count = 3 /\ Len(valid_rows) = 3
    /\ ReplyCall /\ call.phase = "write"
    /\ RefTs \in DOMAIN call.mcc
    /\ SummaryOfCall = PyBytes(SUMMARY)
    /\ PartsOf(call.content) = PyList(<<ReplyShowing(SUMMARY)>>)
    /\ QuotedIn(call.result.v[1].v) # SUMMARY

\* _write_html returned the number of the rows kept, the pre-filter having
\* dropped a row
C28_Html ==
    /\ pc = "done" /\ config.export_format = "html"
    /\ count = Len(valid_rows) /\ Len(valid_rows) < Len(rows)

---------------------------------------------------------------------------
(* The caches across the conversations of a per-friend export *)

\* the last call rendered, in the second peer's conversation, a reply to
\* the timestamp of the first peer's message, a message that is no reply
LaterPeerReply ==
    /\ peer_index = 2 /\ rows = peer_rows[2]
    /\ ReplyCall /\ SummaryOfCall.t = "bytes"
    /\ Len(peer_rows[1]) = 1 /\ peer_rows[1][1].ts = RefTs
    /\ RendersOther(peer_rows[1][1].content)
    /\ \A k \in DOMAIN rows : rows[k].ts # RefTs

\* C29: the two caches are not cleared between the conversations of a
\* per-friend export: no call of export_one_on_one changes them, the entry
\* written at T for one peer's message is there while a later peer's
\* conversation is processed, and a reply to T in the later conversation
\* quotes the earlier peer's text, not its own summary.
C29_CachesAcrossPeers ==
    /\ (pc = "prefilter" /\ idx = 1 /\ peer_index = 2 /\ Len(peer_rows[1]) = 1
           /\ RendersOther(peer_rows[1][1].content)) =>
          /\ peer_rows[1][1].ts \in DOMAIN MESSAGE_CONTENT_CACHE
          /\ MESSAGE_CONTENT_CACHE[peer_rows[1][1].ts]
                = StoredText(peer_rows[1][1].content)
    /\ LaterPeerReply =>
          /\ RefTs \in DOMAIN call.mcc
          /\ QuotedIn(call.result.v[1].v) = StoredText(peer_rows[1][1].content)
          /\ StoredText(peer_rows[1][1].content) # _sanitize_newlines(SummaryOfCall.v)
                => QuotedIn(call.result.v[1].v) # _sanitize_newlines(SummaryOfCall.v)

\* the second peer's reply, which carries a summary, quotes the text of the
\* first peer's message of that timestamp
C29_Witness ==
    /\ LaterPeerReply
    /\ SummaryOfCall = PyBytes(SUMMARY)
    /\ QuotedIn(call.result.v[1].v) = <<"o", "k">>
    /\ peer_rows[1][1].content = One(TextSeg(<<"o", "k">>))

---------------------------------------------------------------------------
(* A blob without the container field *)

\* the decoder accepts the blob, which has no container field
NoContainer(content) ==
    /\ content.raw # <<>> /\ content.pb # EXC
    /\ PB_MSG_CONTAINER \notin DOMAIN content.pb.v

\* the rows the writer wrote before the last call that have the timestamp the
\* reply references and are no replies
EarlierOriginals ==
    {k \in 1..(call.index - 1) :
        valid_rows[k].ts = RefTs /\ RendersOther(valid_rows[k].content)}

\* C30: a blob that the decoder accepts and that has no container field
\* yields the one fragment STRUCTURE_ERROR: the call does not take the
\* except branch and leaves SALVAGE_CACHE as it was, and the writer stores
\* the marker in MESSAGE_CONTENT_CACHE under the message's timestamp, so
\* that a later reply to that timestamp quotes the marker, not its summary.
C30_StructureError ==
    /\ (Called /\ NoContainer(call.content)) =>
          /\ call.result = PyList(<<STRUCTURE_ERROR>>)
          /\ ~call.failed
          /\ SALVAGE_CACHE = call.sc
          /\ call.phase = "write" =>
                MESSAGE_CONTENT_CACHE[call.timestamp] = STRUCTURE_ERROR.v
    /\ (ReplyCall /\ call.phase = "write") =>
          \A k \in EarlierOriginals :
              (/\ \A j \in EarlierOriginals : j <= k
               /\ NoContainer(valid_rows[k].content)) =>
                  /\ QuotedIn(call.result.v[1].v) = STRUCTURE_ERROR.v
                  /\ SummaryOfCall.t = "bytes"
                        => QuotedIn(call.result.v[1].v) # SummaryOfCall.v

\* the writer wrote a reply with a summary to the timestamp of a message
\* without container: the reply quotes the marker, and SALVAGE_CACHE is empty
C30_Witness ==
    /\ ReplyCall /\ call.phase = "write" /\ call.index = 3
    /\ NoContainer(valid_rows[1].content) /\ valid_rows[1].ts = RefTs
    /\ SummaryOfCall = PyBytes(SUMMARY)
    /\ QuotedIn(call.result.v[1].v) = STRUCTURE_ERROR.v
    /\ SALVAGE_CACHE = EmptyCache

\* the writer's call on the message without container
C30_Stored ==
    /\ Called /\ call.phase = "write" /\ NoContainer(call.content)
    /\ MESSAGE_CONTENT_CACHE = Put(EmptyCache, call.timestamp, STRUCTURE_ERROR.v)

====
